---------------------------- MODULE Spec2Model ----------------------------
(***************************************************************************)
(* Gaussian filtering/smoothing transition algebra of probnum.             *)
(*                                                                         *)
(* Numbers are exact rationals <<numerator, denominator>> in lowest terms  *)
(* with a positive denominator; floating-point rounding is not modelled.   *)
(* Vectors are sequences of rationals, matrices are sequences of rows.     *)
(*                                                                         *)
(* Square roots.  A square-root factor S (a Cholesky factor, the R factor  *)
(* of a QR decomposition, np.sqrt of a scalar) is used by the code only    *)
(* through S S^T.  It is represented by that Gram matrix S S^T (a scalar   *)
(* square root by its square), and the numpy operations on factors are     *)
(* written as what they do to the Gram matrix.                             *)
(***************************************************************************)
EXTENDS Integers, Sequences, FiniteSets, TLC

-----------------------------------------------------------------------------
(* Exact rational arithmetic (numpy float64 arithmetic without rounding).   *)

Abs(x) == IF x < 0 THEN -x ELSE x

RECURSIVE GCD(_, _)
GCD(a, b) == IF b = 0 THEN a ELSE GCD(b, a % b)

Rat(n, d) ==
    LET s == IF d < 0 THEN -1 ELSE 1
        g == GCD(Abs(n), Abs(d))
    IN  <<(s * n) \div g, (s * d) \div g>>

Q0 == <<0, 1>>
Q1 == <<1, 1>>
FromInt(n) == <<n, 1>>

\* sums and products cancel common factors first, so that intermediate
\* integers stay small
RAdd(a, b) ==
    LET g == GCD(a[2], b[2])
    IN  Rat(a[1] * (b[2] \div g) + b[1] * (a[2] \div g), (a[2] \div g) * b[2])
RNeg(a) == <<-a[1], a[2]>>
RSub(a, b) == RAdd(a, RNeg(b))
RMul(a, b) ==
    LET g1 == GCD(Abs(a[1]), b[2])
        g2 == GCD(Abs(b[1]), a[2])
    IN  IF a[1] = 0 \/ b[1] = 0 THEN Q0
        ELSE <<(a[1] \div g1) * (b[1] \div g2), (a[2] \div g2) * (b[2] \div g1)>>
RInv(a) == Rat(a[2], a[1])
RDiv(a, b) == RMul(a, RInv(b))
RLt(a, b) == a[1] * b[2] < b[1] * a[2]
RLe(a, b) == a[1] * b[2] <= b[1] * a[2]

-----------------------------------------------------------------------------
(* Dense linear algebra (numpy arrays and the @ operator).                  *)

RECURSIVE SumTo(_, _)
SumTo(f, n) == IF n = 0 THEN Q0 ELSE RAdd(SumTo(f, n - 1), f[n])

\* an array holds values, not the expressions that compute them
Arr(f) == f \o <<>>

NRows(A) == Len(A)
NCols(A) == IF Len(A) = 0 THEN 0 ELSE Len(A[1])

Zeros(n, m) == Arr([i \in 1..n |-> Arr([j \in 1..m |-> Q0])])
ZeroVec(n) == Arr([i \in 1..n |-> Q0])
Eye(n) == Arr([i \in 1..n |-> Arr([j \in 1..n |-> IF i = j THEN Q1 ELSE Q0])])

Transpose(A) == Arr([j \in 1..NCols(A) |-> Arr([i \in 1..NRows(A) |-> A[i][j]])])

MatMul(A, B) ==
    Arr([i \in 1..NRows(A) |->
        Arr([j \in 1..NCols(B) |->
            SumTo([k \in 1..NCols(A) |-> RMul(A[i][k], B[k][j])], NCols(A))])])

MatVec(A, x) ==
    Arr([i \in 1..NRows(A) |->
        SumTo([k \in 1..Len(x) |-> RMul(A[i][k], x[k])], Len(x))])

MatAdd(A, B) ==
    Arr([i \in 1..NRows(A) |-> Arr([j \in 1..NCols(A) |-> RAdd(A[i][j], B[i][j])])])
MatSub(A, B) ==
    Arr([i \in 1..NRows(A) |-> Arr([j \in 1..NCols(A) |-> RSub(A[i][j], B[i][j])])])
MatScale(r, A) ==
    Arr([i \in 1..NRows(A) |-> Arr([j \in 1..NCols(A) |-> RMul(r, A[i][j])])])
VecAdd(x, y) == Arr([i \in 1..Len(x) |-> RAdd(x[i], y[i])])
VecSub(x, y) == Arr([i \in 1..Len(x) |-> RSub(x[i], y[i])])

IsZeroMat(A) == \A i \in 1..NRows(A) : \A j \in 1..NCols(A) : A[i][j] = Q0

\* np.linalg.norm(A) > 0 for a matrix of exact numbers
NormPositive(A) == ~IsZeroMat(A)

\* determinant of a 1x1 or 2x2 matrix
Det(A) ==
    IF NRows(A) = 1 THEN A[1][1]
    ELSE RSub(RMul(A[1][1], A[2][2]), RMul(A[1][2], A[2][1]))

\* np.linalg.inv raises LinAlgError("Singular matrix") exactly when Singular(A)
Singular(A) == Det(A) = Q0

\* np.linalg.inv(A) for a nonsingular 1x1 or 2x2 matrix
Inv(A) ==
    LET d == Det(A)
    IN  IF NRows(A) = 1 THEN <<<<RInv(d)>>>>
        ELSE << <<RDiv(A[2][2], d), RDiv(RNeg(A[1][2]), d)>>,
                <<RDiv(RNeg(A[2][1]), d), RDiv(A[1][1], d)>> >>

IsSymmetric(A) == A = Transpose(A)

\* symmetric positive semi-definite, for 1x1 and 2x2 matrices
IsPSD(A) ==
    /\ IsSymmetric(A)
    /\ \A i \in 1..NRows(A) : RLe(Q0, A[i][i])
    /\ RLe(Q0, Det(A))

IntVec(v) == Arr([i \in 1..Len(v) |-> FromInt(v[i])])
IntMat(A) == Arr([i \in 1..Len(A) |-> IntVec(A[i])])

-----------------------------------------------------------------------------
(* Square-root factors, represented by their Gram matrices.                 *)

\* np.sqrt(x) for x >= 0: the root, represented by its square
np_sqrt(x) == [sq |-> x]

\* np.linalg.cholesky(C) is defined exactly for positive definite C
IsPD(A) ==
    /\ IsSymmetric(A)
    /\ RLt(Q0, A[1][1])
    /\ RLt(Q0, Det(A))

\* np.linalg.cholesky(C): the lower-triangular L with L L^T = C
cholesky(C) == [gram |-> C]

\* 0 * R and np.zeros used as a factor
ZeroFactor(n) == [gram |-> Zeros(n, n)]

\* H @ S for a factor S
FactorLeftMul(H, S) == [gram |-> MatMul(MatMul(H, S.gram), Transpose(H))]

\* r * S for a scalar root r and a factor S
FactorScale(r, S) == [gram |-> MatScale(r.sq, S.gram)]

\* S @ S.T
FactorTimesTranspose(S) == S.gram

\* cholesky_update(R1, R2): the lower-triangular L with
\* L L^T = R1 R1^T + R2 R2^T, obtained from one QR decomposition
cholesky_update(R1, R2) == [gram |-> MatAdd(R1.gram, R2.gram)]

\* triu_to_positive_tril(R): transpose the upper-triangular R and make its
\* diagonal positive; the result L has L L^T = R^T R
triu_to_positive_tril(R) == [gram |-> R.gram]

-----------------------------------------------------------------------------
(* Gaussian beliefs, optional arguments, call results.                      *)

\* Normal(mean, cov, cov_cholesky=...)
NormalWithCholesky(mean, cov, cov_cholesky) ==
    [mean |-> mean, cov |-> cov, cov_cholesky |-> cov_cholesky]

\* Normal(mean, cov): the Cholesky factor is computed from cov on first use
Normal(mean, cov) == NormalWithCholesky(mean, cov, cholesky(cov))

\* Python's None and a supplied optional argument
None == <<>>
Some(x) == <<x>>
IsNone(o) == Len(o) = 0
Val(o) == o[1]

NoRv == [mean |-> <<>>, cov |-> <<>>, cov_cholesky |-> [gram |-> <<>>]]
EmptyDict == [k \in {} |-> <<>>]

\* a call that returns (rv, info), and a call that raises
Return(rv, info) == [status |-> "ok", rv |-> rv, info |-> info]
Raise(exc) == [status |-> exc, rv |-> NoRv, info |-> EmptyDict]

-----------------------------------------------------------------------------
(* Discrete transitions: discrete_transition.py                             *)

\* the forward and backward implementations a DiscreteLinearGaussian can be
\* built with (the keys of choose_forward/backward_implementation)
ForwardImplementations == {"classic", "sqrt"}
BackwardImplementations == {"classic", "sqrt", "joseph"}

\* self.state_trans_mat_fun(t), self.shift_vec_fun(t),
\* self.proc_noise_cov_mat_fun(t)
state_trans_mat_fun(self, t) == self.state_trans_mat_fun[t]
shift_vec_fun(self, t) == self.shift_vec_fun[t]
proc_noise_cov_mat_fun(self, t) == self.proc_noise_cov_mat_fun[t]

\* the dynamics g(t, x): G(t) x + v(t) for a linear transition, one of the
\* named nonlinear maps otherwise
state_trans_fun(self, t, x) ==
    CASE self.state_trans_fun = "linear" ->
            VecAdd(MatVec(state_trans_mat_fun(self, t), x), shift_vec_fun(self, t))
      [] self.state_trans_fun = "square" ->
            Arr([i \in 1..Len(x) |-> RMul(x[i], x[i])])
      [] self.state_trans_fun = "square_plus_t" ->
            Arr([i \in 1..Len(x) |-> RAdd(RMul(x[i], x[i]), FromInt(t))])

\* DiscreteGaussian.proc_noise_cov_cholesky_fun: the Cholesky factor of the
\* process noise, the zero factor for vanishing noise
CholeskyRaises(R) == ~IsZeroMat(R) /\ ~IsPD(R)
proc_noise_cov_cholesky_fun(self, t) ==
    LET R == proc_noise_cov_mat_fun(self, t)
    IN  IF IsZeroMat(R) THEN ZeroFactor(NRows(R)) ELSE cholesky(R)

\* a faulty variant of _forward_rv_classic: the cross-covariance reported in
\* info is the zeros placeholder
ForwardClassicZeroCrosscov(self, rv, t, compute_gain, _diffusion) ==
    LET H == state_trans_mat_fun(self, t)
        R == proc_noise_cov_mat_fun(self, t)
        shift == shift_vec_fun(self, t)
        new_mean == VecAdd(MatVec(H, rv.mean), shift)
        crosscov == MatMul(rv.cov, Transpose(H))
        new_cov == MatAdd(MatMul(H, crosscov), MatScale(_diffusion, R))
        reported == Zeros(NRows(crosscov), NCols(crosscov))
    IN  IF compute_gain
        THEN IF Singular(new_cov) THEN Raise("LinAlgError")
             ELSE Return(Normal(new_mean, new_cov),
                         [crosscov |-> reported,
                          gain |-> MatMul(crosscov, Inv(new_cov))])
        ELSE Return(Normal(new_mean, new_cov), [crosscov |-> reported])

\* DiscreteLinearGaussian._forward_rv_classic
_forward_rv_classic(self, rv, t, compute_gain, _diffusion) ==
    LET H == state_trans_mat_fun(self, t)
        R == proc_noise_cov_mat_fun(self, t)
        shift == shift_vec_fun(self, t)
        new_mean == VecAdd(MatVec(H, rv.mean), shift)
        crosscov == MatMul(rv.cov, Transpose(H))
        new_cov == MatAdd(MatMul(H, crosscov), MatScale(_diffusion, R))
    IN  IF compute_gain
        THEN IF Singular(new_cov) THEN Raise("LinAlgError")
             ELSE Return(Normal(new_mean, new_cov),
                         [crosscov |-> crosscov,
                          gain |-> MatMul(crosscov, Inv(new_cov))])
        ELSE Return(Normal(new_mean, new_cov), [crosscov |-> crosscov])

\* a faulty variant of _forward_rv_sqrt: the process noise factor is not
\* scaled by the root of the diffusion
ForwardSqrtUnscaledNoise(self, rv, t, compute_gain, _diffusion) ==
    IF CholeskyRaises(proc_noise_cov_mat_fun(self, t)) THEN Raise("LinAlgError")
    ELSE
    LET H == state_trans_mat_fun(self, t)
        SR == proc_noise_cov_cholesky_fun(self, t)
        shift == shift_vec_fun(self, t)
        new_mean == VecAdd(MatVec(H, rv.mean), shift)
        new_cov_cholesky == cholesky_update(FactorLeftMul(H, rv.cov_cholesky), SR)
        new_cov == FactorTimesTranspose(new_cov_cholesky)
        crosscov == MatMul(rv.cov, Transpose(H))
    IN  IF compute_gain
        THEN IF Singular(new_cov) THEN Raise("LinAlgError")
             ELSE Return(NormalWithCholesky(new_mean, new_cov, new_cov_cholesky),
                         [crosscov |-> crosscov,
                          gain |-> MatMul(crosscov, Inv(new_cov))])
        ELSE Return(NormalWithCholesky(new_mean, new_cov, new_cov_cholesky),
                    [crosscov |-> crosscov])

\* DiscreteLinearGaussian._forward_rv_sqrt
_forward_rv_sqrt(self, rv, t, compute_gain, _diffusion) ==
    IF CholeskyRaises(proc_noise_cov_mat_fun(self, t)) THEN Raise("LinAlgError")
    ELSE
    LET H == state_trans_mat_fun(self, t)
        SR == proc_noise_cov_cholesky_fun(self, t)
        shift == shift_vec_fun(self, t)
        new_mean == VecAdd(MatVec(H, rv.mean), shift)
        new_cov_cholesky ==
            cholesky_update(FactorLeftMul(H, rv.cov_cholesky),
                            FactorScale(np_sqrt(_diffusion), SR))
        new_cov == FactorTimesTranspose(new_cov_cholesky)
        crosscov == MatMul(rv.cov, Transpose(H))
    IN  IF compute_gain
        THEN IF Singular(new_cov) THEN Raise("LinAlgError")
             ELSE Return(NormalWithCholesky(new_mean, new_cov, new_cov_cholesky),
                         [crosscov |-> crosscov,
                          gain |-> MatMul(crosscov, Inv(new_cov))])
        ELSE Return(NormalWithCholesky(new_mean, new_cov, new_cov_cholesky),
                    [crosscov |-> crosscov])

\* DiscreteGaussian.forward_rv / DiscreteLinearGaussian.forward_rv
forward_rv(self, rv, t, compute_gain, _diffusion) ==
    IF self.cls = "DiscreteGaussian" THEN Raise("NotImplementedError")
    ELSE IF self.forward_implementation = "classic"
         THEN _forward_rv_classic(self, rv, t, compute_gain, _diffusion)
         ELSE _forward_rv_sqrt(self, rv, t, compute_gain, _diffusion)

\* condition_state_on_rv(rv_obtained, rv_forwarded, rv, gain): the standard
\* conditioning formula of the classic backward update
condition_state_on_rv(rv_obtained, rv_forwarded, rv, gain) ==
    LET new_mean ==
            VecAdd(rv.mean, MatVec(gain, VecSub(rv_obtained.mean, rv_forwarded.mean)))
        new_cov ==
            MatSub(rv.cov, MatMul(MatMul(gain, rv_forwarded.cov), Transpose(gain)))
    IN  Normal(new_mean, new_cov)

\* _backward_rv_classic after its own prediction fwd: an error of the
\* prediction propagates, else the state is conditioned on what it returned
classic_after_forward(rv_obtained, rv, fwd) ==
    IF fwd.status # "ok" THEN Raise(fwd.status)
    ELSE Return(condition_state_on_rv(rv_obtained, fwd.rv, rv, fwd.info.gain), EmptyDict)

\* a faulty variant of _backward_rv_classic: the prediction is recomputed
\* without the _diffusion of the call
BackwardClassicRecomputeUnitDiffusion(self, rv_obtained, rv, rv_forwarded, gain, t, _diffusion) ==
    IF IsNone(rv_forwarded) \/ IsNone(gain)
    THEN classic_after_forward(rv_obtained, rv, forward_rv(self, rv, t, TRUE, Q1))
    ELSE Return(condition_state_on_rv(rv_obtained, Val(rv_forwarded), rv, Val(gain)),
                EmptyDict)

\* DiscreteGaussian._backward_rv_classic
_backward_rv_classic(self, rv_obtained, rv, rv_forwarded, gain, t, _diffusion) ==
    IF IsNone(rv_forwarded) \/ IsNone(gain)
    THEN classic_after_forward(rv_obtained, rv, forward_rv(self, rv, t, TRUE, _diffusion))
    ELSE Return(condition_state_on_rv(rv_obtained, Val(rv_forwarded), rv, Val(gain)),
                EmptyDict)

\* np.linalg.pinv of a symmetric positive semi-definite 1x1 or 2x2 matrix
PInvPSD(A) ==
    IF ~Singular(A) THEN Inv(A)
    ELSE IF IsZeroMat(A) THEN A
    ELSE LET tr == RAdd(A[1][1], A[2][2])
         IN  MatScale(RInv(RMul(tr, tr)), A)

\* big_triu = np.linalg.qr(blockmat, mode="r") of
\*    blockmat = [[SC_past.T @ H.T, SC_past.T        ],
\*                [SR.T,            zeros2           ],
\*                [zeros,           SC_attained.T @ gain.T]]
\* The upper-triangular R = [[R11, R12], [0, R22]] has R^T R = blockmat^T blockmat,
\* whose blocks are
\*    B11 = H SC_past SC_past^T H^T + SR SR^T
\*    B12 = H SC_past SC_past^T
\*    B22 = SC_past SC_past^T + gain SC_attained SC_attained^T gain^T
\* so that R22^T R22 = B22 - B12^T B11^-1 B12.  (When B11 is singular the R
\* factor is not fixed by the decomposition; the minimum-norm one is taken.)
qr_r_lower_right(H, SC_past, SR, SC_attained, gain) ==
    LET B11 == MatAdd(FactorLeftMul(H, SC_past).gram, SR.gram)
        B12 == MatMul(H, SC_past.gram)
        B22 == MatAdd(SC_past.gram, FactorLeftMul(gain, SC_attained).gram)
    IN  [gram |-> MatSub(B22, MatMul(MatMul(Transpose(B12), PInvPSD(B11)), B12))]

\* the gain _backward_rv_sqrt works with: the one passed in, else the one of
\* an extra prediction (smoothing), else zeros (exact observation)
gain_of_forward(fwd) ==
    IF fwd.status # "ok" THEN [status |-> fwd.status, gain |-> <<>>]
    ELSE [status |-> "ok", gain |-> fwd.info.gain]

backward_sqrt_gain(self, rv_obtained, rv, gain, t, _diffusion) ==
    IF ~IsNone(gain) THEN [status |-> "ok", gain |-> Val(gain)]
    ELSE IF NormPositive(rv_obtained.cov)
         THEN gain_of_forward(forward_rv(self, rv, t, TRUE, _diffusion))
         ELSE [status |-> "ok",
               gain |-> Zeros(Len(rv.mean), Len(rv_obtained.mean))]

\* _backward_rv_sqrt from the gain g it works with on: the process noise
\* factor, the QR decomposition of the block matrix, the smoothed belief
sqrt_update(self, rv_obtained, rv, g, t, _diffusion) ==
    IF g.status # "ok" THEN Raise(g.status)
    ELSE IF CholeskyRaises(proc_noise_cov_mat_fun(self, t)) THEN Raise("LinAlgError")
    ELSE
    LET H == state_trans_mat_fun(self, t)
        SR == FactorScale(np_sqrt(_diffusion), proc_noise_cov_cholesky_fun(self, t))
        shift == shift_vec_fun(self, t)
        SC_past == rv.cov_cholesky
        SC_attained == rv_obtained.cov_cholesky
        SC == qr_r_lower_right(H, SC_past, SR, SC_attained, g.gain)
        \* "if gain is None" after the decomposition never holds: gain was
        \* replaced above
        new_mean ==
            VecAdd(rv.mean,
                   MatVec(g.gain,
                          VecSub(VecSub(rv_obtained.mean, MatVec(H, rv.mean)), shift)))
        new_cov_cholesky == triu_to_positive_tril(SC)
        new_cov == FactorTimesTranspose(new_cov_cholesky)
    IN  Return(NormalWithCholesky(new_mean, new_cov, new_cov_cholesky), EmptyDict)

\* DiscreteLinearGaussian._backward_rv_sqrt (rv_forwarded is ignored)
_backward_rv_sqrt(self, rv_obtained, rv, rv_forwarded, gain, t, _diffusion) ==
    sqrt_update(self, rv_obtained, rv,
                backward_sqrt_gain(self, rv_obtained, rv, gain, t, _diffusion),
                t, _diffusion)

\* a faulty variant of joseph_update: the short form (I - gain H) cov of the
\* covariance update, which is the posterior covariance only for the Kalman
\* gain
JosephUpdateShortForm(self, rv_obtained, rv, gain, t, _diffusion) ==
    LET H == state_trans_mat_fun(self, t)
        shift == shift_vec_fun(self, t)
        new_mean ==
            VecAdd(rv.mean,
                   MatVec(gain,
                          VecSub(VecSub(rv_obtained.mean, MatVec(H, rv.mean)), shift)))
        joseph_factor == MatSub(Eye(Len(rv.mean)), MatMul(gain, H))
        new_cov == MatMul(joseph_factor, rv.cov)
    IN  Return(Normal(new_mean, new_cov), EmptyDict)

\* _backward_rv_joseph from the gain on: the mean update and the Joseph form
\* of the covariance update
joseph_update(self, rv_obtained, rv, gain, t, _diffusion) ==
    LET H == state_trans_mat_fun(self, t)
        R == MatScale(_diffusion, proc_noise_cov_mat_fun(self, t))
        shift == shift_vec_fun(self, t)
        new_mean ==
            VecAdd(rv.mean,
                   MatVec(gain,
                          VecSub(VecSub(rv_obtained.mean, MatVec(H, rv.mean)), shift)))
        joseph_factor == MatSub(Eye(Len(rv.mean)), MatMul(gain, H))
        new_cov ==
            MatAdd(MatAdd(MatMul(MatMul(joseph_factor, rv.cov), Transpose(joseph_factor)),
                          MatMul(MatMul(gain, R), Transpose(gain))),
                   MatMul(MatMul(gain, rv_obtained.cov), Transpose(gain)))
    IN  Return(Normal(new_mean, new_cov), EmptyDict)

\* _backward_rv_joseph after its own prediction fwd ("if gain is None"): an
\* error of the prediction propagates, else its gain is used
joseph_after_forward(self, rv_obtained, rv, fwd, t, _diffusion) ==
    IF fwd.status # "ok" THEN Raise(fwd.status)
    ELSE joseph_update(self, rv_obtained, rv, fwd.info.gain, t, _diffusion)

\* DiscreteLinearGaussian._backward_rv_joseph (rv_forwarded is ignored)
_backward_rv_joseph(self, rv_obtained, rv, rv_forwarded, gain, t, _diffusion) ==
    IF IsNone(gain)
    THEN joseph_after_forward(self, rv_obtained, rv,
                              forward_rv(self, rv, t, TRUE, _diffusion), t, _diffusion)
    ELSE joseph_update(self, rv_obtained, rv, Val(gain), t, _diffusion)

\* DiscreteGaussian.backward_rv / DiscreteLinearGaussian.backward_rv
backward_rv(self, rv_obtained, rv, rv_forwarded, gain, t, _diffusion) ==
    IF self.cls = "DiscreteGaussian" THEN Raise("NotImplementedError")
    ELSE CASE self.backward_implementation = "classic" ->
                _backward_rv_classic(self, rv_obtained, rv, rv_forwarded, gain, t, _diffusion)
           [] self.backward_implementation = "sqrt" ->
                _backward_rv_sqrt(self, rv_obtained, rv, rv_forwarded, gain, t, _diffusion)
           [] self.backward_implementation = "joseph" ->
                _backward_rv_joseph(self, rv_obtained, rv, rv_forwarded, gain, t, _diffusion)

\* a realization as a Gaussian belief without uncertainty: zero covariance
\* and zero Cholesky factor
real_as_delta(real) ==
    NormalWithCholesky(real, Zeros(Len(real), Len(real)), ZeroFactor(Len(real)))

\* a faulty variant of forward_realization: the process noise of the
\* nonlinear transition is not scaled by the diffusion
ForwardRealizationUnscaledNoise(self, real, t, _diffusion) ==
    IF self.cls = "DiscreteGaussian"
    THEN LET newmean == state_trans_fun(self, t, real)
             newcov == proc_noise_cov_mat_fun(self, t)
         IN  Return(Normal(newmean, newcov), EmptyDict)
    ELSE forward_rv(self, real_as_delta(real), t, FALSE, _diffusion)

\* DiscreteGaussian.forward_realization / DiscreteLinearGaussian.forward_realization
forward_realization(self, real, t, _diffusion) ==
    IF self.cls = "DiscreteGaussian"
    THEN LET newmean == state_trans_fun(self, t, real)
             newcov == MatScale(_diffusion, proc_noise_cov_mat_fun(self, t))
         IN  Return(Normal(newmean, newcov), EmptyDict)
    ELSE forward_rv(self, real_as_delta(real), t, FALSE, _diffusion)

\* DiscreteGaussian.backward_realization / DiscreteLinearGaussian.backward_realization
backward_realization(self, real_obtained, rv, rv_forwarded, gain, t, _diffusion) ==
    IF self.cls = "DiscreteGaussian" THEN Raise("NotImplementedError")
    ELSE backward_rv(self, real_as_delta(real_obtained), rv, rv_forwarded, gain, t, _diffusion)

-----------------------------------------------------------------------------
(* Integrated Ornstein-Uhlenbeck transition: _ioup.py                       *)
(*                                                                         *)
(* The discretisation of the SDE (a matrix exponential) and the propagation *)
(* through the discretised model are functions of the system matrices read, *)
(* the step and the arguments.  Their values are kept as the record of what *)
(* they are computed from; the preconditioning around them is computed.     *)

RECURSIVE RPow(_, _)
RPow(r, n) == IF n = 0 THEN Q1 ELSE RMul(r, RPow(r, n - 1))

RECURSIVE Factorial(_)
Factorial(n) == IF n = 0 THEN 1 ELSE n * Factorial(n - 1)

\* np.kron of two matrices
Kron(A, B) ==
    Arr([i \in 1..(NRows(A) * NRows(B)) |->
        Arr([j \in 1..(NCols(A) * NCols(B)) |->
            RMul(A[((i - 1) \div NRows(B)) + 1][((j - 1) \div NCols(B)) + 1],
                 B[((i - 1) % NRows(B)) + 1][((j - 1) % NCols(B)) + 1])])])

\* np.diag of a vector
Diag(v) == Arr([i \in 1..Len(v) |-> Arr([j \in 1..Len(v) |-> IF i = j THEN v[i] ELSE Q0])])

\* the state dimension d (q + 1) of an integrator
Dimension(self) == self.wiener_process_dimension * (self.num_derivatives + 1)

\* a faulty variant of _drift_matrix: the last diagonal entry is +driftspeed
DriftMatrixPositiveSpeed(self) ==
    LET q == self.num_derivatives
        drift_matrix_1d ==
            Arr([i \in 1..(q + 1) |->
                Arr([j \in 1..(q + 1) |->
                    IF i = q + 1 /\ j = q + 1 THEN self.driftspeed
                    ELSE IF j = i + 1 THEN Q1
                    ELSE Q0])])
    IN  Kron(Eye(self.wiener_process_dimension), drift_matrix_1d)

\* IntegratedOrnsteinUhlenbeckTransition._drift_matrix
_drift_matrix(self) ==
    LET q == self.num_derivatives
        drift_matrix_1d ==
            Arr([i \in 1..(q + 1) |->
                Arr([j \in 1..(q + 1) |->
                    IF i = q + 1 /\ j = q + 1 THEN RNeg(self.driftspeed)
                    ELSE IF j = i + 1 THEN Q1
                    ELSE Q0])])
    IN  Kron(Eye(self.wiener_process_dimension), drift_matrix_1d)

\* IntegratedOrnsteinUhlenbeckTransition._force_vector
_force_vector(self) ==
    LET force_1d == <<ZeroVec(self.num_derivatives + 1)>>
        ones == <<Arr([i \in 1..self.wiener_process_dimension |-> Q1])>>
    IN  Kron(ones, force_1d)[1]

\* IntegratedOrnsteinUhlenbeckTransition._dispersion_matrix
_dispersion_matrix(self) ==
    LET q == self.num_derivatives
        dispersion_matrix_1d == <<Arr([j \in 1..(q + 1) |-> IF j = q + 1 THEN Q1 ELSE Q0])>>
    IN  Transpose(Kron(Eye(self.wiener_process_dimension), dispersion_matrix_1d))

\* IntegratedOrnsteinUhlenbeckTransition.__init__: the system matrices of the
\* LTI SDE are the cached _drift_matrix, _force_vector, _dispersion_matrix
IntegratedOrnsteinUhlenbeckTransition(num_derivatives, wiener_process_dimension, driftspeed) ==
    LET self == [num_derivatives |-> num_derivatives,
                 wiener_process_dimension |-> wiener_process_dimension,
                 driftspeed |-> driftspeed]
    IN  [num_derivatives |-> num_derivatives,
         wiener_process_dimension |-> wiener_process_dimension,
         driftspeed |-> driftspeed,
         drift_matrix |-> _drift_matrix(self),
         force_vector |-> _force_vector(self),
         dispersion_matrix |-> _dispersion_matrix(self)]

\* the square root of a rational that is the square of a rational
ISqrt(n) == CHOOSE k \in 0..n : k * k = n
RSqrt(r) == <<ISqrt(r[1]), ISqrt(r[2])>>

\* self.precon(dt): Nordsieck-like coordinates, the diagonal scaling
\* |dt|^(p + 1/2) / p! for p = q, ..., 0 in each Wiener dimension
precon(self, dt) ==
    LET q == self.num_derivatives
        scaling_vector ==
            Arr([k \in 1..(q + 1) |->
                RDiv(RPow(RSqrt(dt), 2 * (q + 1 - k) + 1),
                     FromInt(Factorial(q + 1 - k)))])
    IN  Kron(Eye(self.wiener_process_dimension), Diag(scaling_vector))

\* self.precon.inverse(dt)
precon_inverse(self, dt) ==
    LET q == self.num_derivatives
        scaling_vector ==
            Arr([k \in 1..(q + 1) |->
                RDiv(FromInt(Factorial(q + 1 - k)),
                     RPow(RSqrt(dt), 2 * (q + 1 - k) + 1))])
    IN  Kron(Eye(self.wiener_process_dimension), Diag(scaling_vector))

\* _preconditioner.apply_precon(precon, rv): the belief in the coordinates
\* precon maps to
apply_precon(P, rv) ==
    NormalWithCholesky(MatVec(P, rv.mean),
                       MatMul(MatMul(P, rv.cov), Transpose(P)),
                       FactorLeftMul(P, rv.cov_cholesky))

\* "Apply preconditioning to system matrices": the three assignments to
\* self.drift_matrix, self.force_vector, self.dispersion_matrix
precondition_system(self, dt) ==
    [self EXCEPT
        !.drift_matrix = MatMul(MatMul(precon_inverse(self, dt), self.drift_matrix),
                                precon(self, dt)),
        !.force_vector = MatVec(precon_inverse(self, dt), self.force_vector),
        !.dispersion_matrix = MatMul(precon_inverse(self, dt), self.dispersion_matrix)]

\* a faulty variant of restore_system: the dispersion matrix is left in the
\* preconditioned coordinates
RestoreSystemWithoutDispersion(self, dt) ==
    [self EXCEPT
        !.drift_matrix = MatMul(MatMul(precon(self, dt), self.drift_matrix),
                                precon_inverse(self, dt)),
        !.force_vector = MatVec(precon(self, dt), self.force_vector)]

\* the three assignments that end forward_rv and backward_rv
restore_system(self, dt) ==
    [self EXCEPT
        !.drift_matrix = MatMul(MatMul(precon(self, dt), self.drift_matrix),
                                precon_inverse(self, dt)),
        !.force_vector = MatVec(precon(self, dt), self.force_vector),
        !.dispersion_matrix = MatMul(precon(self, dt), self.dispersion_matrix)]

\* self.discretise(dt): the discrete LTI transition of the SDE with the
\* system matrices self holds at this moment
discretise(self, dt) ==
    [drift_matrix |-> self.drift_matrix,
     force_vector |-> self.force_vector,
     dispersion_matrix |-> self.dispersion_matrix,
     dt |-> dt]

NoModel == [drift_matrix |-> <<>>, force_vector |-> <<>>, dispersion_matrix |-> <<>>,
            dt |-> Q0]

\* a belief or matrix that is the value of a computation on the discretised
\* model, and its image under the maps that undo the preconditioning
Computed(what, model, args) == [what |-> what, model |-> model, args |-> args]
Mapped(left, x, right) == [left |-> left, x |-> x, right |-> right]
MappedBelief(P, rv) == [precon |-> P, rv |-> rv]

\* The forwarded covariance Ah cov Ah^T + _diffusion * Qh of the discretised
\* model is singular exactly when _diffusion = 0 and cov is singular: Ah is a
\* matrix exponential and Qh is positive definite.  The beliefs passed in
\* have a zero or a positive definite covariance.
ForwardedCovSingular(rv, _diffusion) == _diffusion = Q0 /\ IsZeroMat(rv.cov)

\* discretised_model.forward_rv(rv, t, compute_gain=..., _diffusion=...)
discretised_forward_rv(model, rv, t, compute_gain, _diffusion) ==
    IF compute_gain /\ ForwardedCovSingular(rv, _diffusion) THEN Raise("LinAlgError")
    ELSE LET args == [rv |-> rv, t |-> t, _diffusion |-> _diffusion]
         IN  Return(Computed("rv_forwarded", model, args),
                    IF compute_gain
                    THEN [crosscov |-> Computed("crosscov", model, args),
                          gain |-> Computed("gain", model, args)]
                    ELSE [crosscov |-> Computed("crosscov", model, args)])

\* discretised_model.backward_rv(rv_obtained, rv, rv_forwarded, gain, t,
\* _diffusion) with the classic backward implementation: without rv_forwarded
\* or without gain it runs forward_rv with compute_gain=True first
discretised_backward_rv(model, rv_obtained, rv, rv_forwarded, gain, t, _diffusion) ==
    IF (IsNone(rv_forwarded) \/ IsNone(gain)) /\ ForwardedCovSingular(rv, _diffusion)
    THEN Raise("LinAlgError")
    ELSE Return(Computed("rv_backward", model,
                         [rv_obtained |-> rv_obtained, rv |-> rv,
                          rv_forwarded |-> rv_forwarded, gain |-> gain,
                          t |-> t, _diffusion |-> _diffusion]),
                EmptyDict)

\* "Undo preconditioning and return" of forward_rv: rv and info as returned
forward_rv_undo(self, dt, inner) ==
    Return(MappedBelief(precon(self, dt), inner.rv),
           IF "gain" \in DOMAIN inner.info
           THEN [crosscov |-> Mapped(precon(self, dt), inner.info.crosscov,
                                     Transpose(precon(self, dt))),
                 gain |-> Mapped(precon(self, dt), inner.info.gain,
                                 Transpose(precon_inverse(self, dt)))]
           ELSE [crosscov |-> Mapped(precon(self, dt), inner.info.crosscov,
                                     Transpose(precon(self, dt)))])

\* "Undo preconditioning and return" of backward_rv
backward_rv_undo(self, dt, inner) ==
    Return(MappedBelief(precon(self, dt), inner.rv), inner.info)

-----------------------------------------------------------------------------
(* The transitions and the arguments the operations are called with.        *)

MaxTime == 1
MaxDiffusion == 2

Times == 0..MaxTime
Diffusions == {FromInt(s) : s \in 0..MaxDiffusion}

\* lambda t: A   and   lambda t: A + t * B
ConstFun(A) == [t \in Times |-> A]
MatFun(A, B) == [t \in Times |-> MatAdd(IntMat(A), MatScale(FromInt(t), IntMat(B)))]
VecFun(a, b) == [t \in Times |-> VecAdd(IntVec(a), MatScale(FromInt(t), <<IntVec(b)>>)[1])]

\* (input_dim, output_dim) of the modelled transitions
Shapes == {<<1, 1>>, <<2, 2>>, <<2, 1>>}

\* state transition matrix functions G(t), shape (output_dim, input_dim)
StateTransMatFuns(shape) ==
    CASE shape = <<1, 1>> -> {MatFun(<<<<1>>>>, <<<<0>>>>), MatFun(<<<<-2>>>>, <<<<1>>>>)}
      [] shape = <<2, 2>> -> {MatFun(<<<<1, 1>>, <<0, 1>>>>, <<<<0, 0>>, <<0, 0>>>>),
                              MatFun(<<<<1, 0>>, <<-1, 2>>>>, <<<<0, 1>>, <<0, 0>>>>)}
      [] shape = <<2, 1>> -> {MatFun(<<<<1, -1>>>>, <<<<0, 1>>>>)}

\* shift vector functions v(t), shape (output_dim,)
ShiftVecFuns(shape) ==
    CASE shape = <<1, 1>> -> {VecFun(<<0>>, <<0>>), VecFun(<<1>>, <<1>>)}
      [] shape = <<2, 2>> -> {VecFun(<<1, -1>>, <<0, 1>>)}
      [] shape = <<2, 1>> -> {VecFun(<<-1>>, <<2>>)}

\* process noise covariance functions Q(t), shape (output_dim, output_dim):
\* no noise, constant, time-varying (the last 2x2 one is singular at t = 0,
\* where np.linalg.cholesky raises, and positive definite afterwards)
ProcNoiseCovMatFuns(n) ==
    CASE n = 1 -> {MatFun(<<<<0>>>>, <<<<0>>>>), MatFun(<<<<1>>>>, <<<<0>>>>),
                   MatFun(<<<<1>>>>, <<<<2>>>>)}
      [] n = 2 -> {MatFun(<<<<0, 0>>, <<0, 0>>>>, <<<<0, 0>>, <<0, 0>>>>),
                   MatFun(<<<<2, 1>>, <<1, 1>>>>, <<<<0, 0>>, <<0, 0>>>>),
                   MatFun(<<<<1, 0>>, <<0, 0>>>>, <<<<0, 0>>, <<0, 1>>>>)}

\* DiscreteLinearGaussian.__init__
DiscreteLinearGaussian(input_dim, output_dim, G, v, Q, fwd, bwd) ==
    [cls |-> "DiscreteLinearGaussian",
     input_dim |-> input_dim, output_dim |-> output_dim,
     state_trans_fun |-> "linear",
     state_trans_mat_fun |-> G, shift_vec_fun |-> v, proc_noise_cov_mat_fun |-> Q,
     forward_implementation |-> fwd, backward_implementation |-> bwd]

\* DiscreteGaussian.__init__ (a linear transition fills the unused matrix
\* and shift functions of the record with zeros)
DiscreteGaussian(input_dim, output_dim, g, Q) ==
    [cls |-> "DiscreteGaussian",
     input_dim |-> input_dim, output_dim |-> output_dim,
     state_trans_fun |-> g,
     state_trans_mat_fun |-> ConstFun(Zeros(output_dim, input_dim)),
     shift_vec_fun |-> ConstFun(ZeroVec(output_dim)),
     proc_noise_cov_mat_fun |-> Q,
     forward_implementation |-> "classic", backward_implementation |-> "classic"]

NonlinearFuns == {"square", "square_plus_t"}

\* the same transition built once per backward implementation
LinearTriples ==
    {[b \in BackwardImplementations |->
        DiscreteLinearGaussian(sh[1], sh[2], G, v, Q, fwd, b)] :
     <<sh, G, v, Q, fwd>> \in
        UNION {{sh} \X StateTransMatFuns(sh) \X ShiftVecFuns(sh)
                    \X ProcNoiseCovMatFuns(sh[2]) \X ForwardImplementations
               : sh \in Shapes}}

NonlinearTriples ==
    {[b \in BackwardImplementations |-> DiscreteGaussian(n, n, g, Q)] :
     <<n, g, Q>> \in
        UNION {{n} \X NonlinearFuns \X ProcNoiseCovMatFuns(n) : n \in {1, 2}}}

\* means and covariances of the Gaussian beliefs passed in
Means(n) ==
    CASE n = 1 -> {IntVec(<<0>>), IntVec(<<1>>)}
      [] n = 2 -> {IntVec(<<0, 0>>), IntVec(<<1, -2>>)}

Covs(n) ==
    CASE n = 1 -> {IntMat(<<<<0>>>>), IntMat(<<<<1>>>>), IntMat(<<<<3>>>>)}
      [] n = 2 -> {IntMat(<<<<0, 0>>, <<0, 0>>>>),
                   IntMat(<<<<2, -1>>, <<-1, 1>>>>),
                   IntMat(<<<<1, 1>>, <<1, 1>>>>)}

\* a belief whose covariance has no Cholesky factor np.linalg.cholesky can
\* compute is built with its factor supplied
Normals(n) ==
    {IF IsPD(C) THEN Normal(m, C) ELSE NormalWithCholesky(m, C, [gram |-> C]) :
     <<m, C>> \in Means(n) \X Covs(n)}

\* mean and covariances of the belief conditioned on: an exact observation,
\* and one with uncertainty
ObtainedMeans(n) ==
    CASE n = 1 -> {IntVec(<<1>>)}
      [] n = 2 -> {IntVec(<<1, -2>>)}

ObtainedCovs(n) ==
    CASE n = 1 -> {IntMat(<<<<0>>>>), IntMat(<<<<1>>>>)}
      [] n = 2 -> {IntMat(<<<<0, 0>>, <<0, 0>>>>), IntMat(<<<<1, 1>>, <<1, 2>>>>)}

ObtainedNormals(n) ==
    {IF IsZeroMat(C) THEN real_as_delta(m) ELSE Normal(m, C) :
     <<m, C>> \in ObtainedMeans(n) \X ObtainedCovs(n)}

\* a gain matrix that is not the Kalman gain, shape (input_dim, output_dim)
OtherGains(shape) ==
    CASE shape = <<1, 1>> -> {<<<<Rat(-3, 2)>>>>}
      [] shape = <<2, 2>> -> {<<<<Rat(1, 2), FromInt(-1)>>, <<Q0, FromInt(2)>>>>}
      [] shape = <<2, 1>> -> {<<<<Rat(1, 2)>>, <<FromInt(-1)>>>>}

-----------------------------------------------------------------------------
(* The IOUP transitions and the arguments of their calls.                   *)

MaxNumDerivatives == 1
MaxWienerDim == 1
MaxCalls == 2

DriftSpeeds == {FromInt(0), FromInt(2)}

IoupTransitions ==
    {IntegratedOrnsteinUhlenbeckTransition(q, d, driftspeed) :
     <<q, d, driftspeed>> \in
        (0..MaxNumDerivatives) \X (1..MaxWienerDim) \X DriftSpeeds}

\* dt=None (the default) or a step
Steps == {Rat(1, 4), FromInt(4)}
StepOptions == {None} \cup {Some(dt) : dt \in Steps}


\* np.arange(n) and np.diag(np.arange(1, n + 1))
Arange(n) == Arr([i \in 1..n |-> FromInt(i - 1)])
DiagArange(n) == Diag(Arr([i \in 1..n |-> FromInt(i)]))

\* a belief with a positive definite covariance and one with a zero
\* covariance
IoupNormal(n) == Normal(Arange(n), DiagArange(n))
IoupPointMass(n) == NormalWithCholesky(Arange(n), Zeros(n, n), ZeroFactor(n))

\* (rv, compute_gain, _diffusion) of forward_rv
IoupForwardArgs(n) ==
    {<<IoupNormal(n), FALSE, Q1>>, <<IoupNormal(n), TRUE, Q1>>,
     <<IoupPointMass(n), FALSE, Q0>>, <<IoupPointMass(n), TRUE, Q0>>}

IoupObtainedNormal(n) == Normal(ZeroVec(n), Eye(n))

\* (rv_forwarded, gain): both omitted, or both supplied
IoupOmitted == <<None, None>>
IoupSupplied(n) ==
    <<Some(Normal(Arange(n), MatScale(FromInt(2), DiagArange(n)))),
      Some(MatScale(Rat(1, 2), Eye(n)))>>

\* (rv, (rv_forwarded, gain), _diffusion) of backward_rv
IoupBackwardArgs(n) ==
    {<<IoupNormal(n), IoupOmitted, Q1>>, <<IoupNormal(n), IoupSupplied(n), Q1>>,
     <<IoupPointMass(n), IoupOmitted, Q0>>, <<IoupPointMass(n), IoupSupplied(n), Q0>>}

-----------------------------------------------------------------------------
(* ODE information operators: _information_operator.py, _ode_residual.py     *)
(*                                                                         *)
(* An operator is a record of its attributes.  ODEResidualOperator caches   *)
(* the projections h0, h1 when it is constructed and holds an ivp;          *)
(* ODEResidual holds an ode and caches projection_matrices, _residual and   *)
(* _residual_jacobian when the ODE is incorporated.  The attributes of the  *)
(* other class are None in a record.  Functions bound to an operator are    *)
(* kept by name.                                                            *)

\* Integrator.__init__
Integrator(ordint, spatialdim) ==
    [ordint |-> ordint, spatialdim |-> spatialdim, precon |-> None]

\* np.eye(self.ordint + 1)[:, coord] raises IndexError for a column that
\* does not exist
proj2coord_raises(self, coord) == coord > self.ordint

\* a faulty variant of proj2coord: the Kronecker factors are exchanged
Proj2coordFactorsExchanged(self, coord) ==
    LET projvec1d == Arr([j \in 1..(self.ordint + 1) |-> IF j = coord + 1 THEN Q1 ELSE Q0])
        projmat1d == <<projvec1d>>
    IN  Kron(projmat1d, Eye(self.spatialdim))

\* Integrator.proj2coord
proj2coord(self, coord) ==
    LET projvec1d == Arr([j \in 1..(self.ordint + 1) |-> IF j = coord + 1 THEN Q1 ELSE Q0])
        projmat1d == <<projvec1d>>
    IN  Kron(Eye(self.spatialdim), projmat1d)

\* what an operation on an operator leaves behind: the operator, how the
\* call ended, the value returned
Outcome(self, status, value) == [self |-> self, status |-> status, value |-> value]

\* InformationOperator.__init__
InformationOperator(cls, input_dim, output_dim) ==
    [cls |-> cls, input_dim |-> input_dim, output_dim |-> output_dim,
     ivp |-> None, ode |-> None,
     h0 |-> None, h1 |-> None, projection_matrices |-> None,
     prior_ordint |-> 0, prior_spatialdim |-> 0,
     _residual |-> None, _residual_jacobian |-> None]

\* ODEResidualOperator.__init__ raises when proj2coord does
ODEResidualOperator_raises(prior_ordint, prior_spatialdim) ==
    \E coord \in {0, 1} :
        proj2coord_raises(Integrator(prior_ordint, prior_spatialdim), coord)

\* ODEResidualOperator.__init__
ODEResidualOperator(prior_ordint, prior_spatialdim) ==
    LET integrator_dimension == prior_spatialdim * (prior_ordint + 1)
        expected_ode_dimension == prior_spatialdim
        dummy_integrator == Integrator(prior_ordint, prior_spatialdim)
    IN  [InformationOperator("ODEResidualOperator", integrator_dimension,
                             expected_ode_dimension)
         EXCEPT !.h0 = Some(proj2coord(dummy_integrator, 0)),
                !.h1 = Some(proj2coord(dummy_integrator, 1)),
                !.prior_ordint = prior_ordint,
                !.prior_spatialdim = prior_spatialdim]

\* ODEResidual.__init__
ODEResidual(prior_ordint, prior_spatialdim) ==
    LET integrator_dimension == prior_spatialdim * (prior_ordint + 1)
        expected_ode_dimension == prior_spatialdim
    IN  [InformationOperator("ODEResidual", integrator_dimension, expected_ode_dimension)
         EXCEPT !.prior_ordint = prior_ordint,
                !.prior_spatialdim = prior_spatialdim]

\* InformationOperator.ivp_has_been_set
ivp_has_been_set(self) == ~IsNone(self.ivp)

\* a faulty variant of set_ivp: the IVP is overwritten
SetIvpOverwriting(self, ivp) == Outcome([self EXCEPT !.ivp = Some(ivp)], "ok", None)

\* InformationOperator.set_ivp
set_ivp(self, ivp) ==
    IF ivp_has_been_set(self)
    THEN Outcome(self, "ValueError", None)
    ELSE Outcome([self EXCEPT !.ivp = Some(ivp)], "ok", None)

\* ODEInformationOperator.ode_has_been_incorporated
ode_has_been_incorporated(self) == ~IsNone(self.ode)

\* ODEInformationOperator.incorporate_ode: a second ODE is a ValueError
ODEInformationOperator_incorporate_ode(self, ode) ==
    IF ode_has_been_incorporated(self)
    THEN Outcome(self, "ValueError", None)
    ELSE Outcome([self EXCEPT !.ode = Some(ode)], "ok", None)

\* ODEResidual._match_residual_and_jacobian_to_ode_order: the dictionary has
\* the implementations of first-order ODEs only
_match_residual_and_jacobian_to_ode_order(self, ode_order) ==
    CASE ode_order = 1 ->
        <<"_residual_first_order_ode", "_residual_first_order_ode_jacobian">>

\* ODEResidual.incorporate_ode
incorporate_ode(self, ode) ==
    LET base == ODEInformationOperator_incorporate_ode(self, ode)
        dummy_integrator == Integrator(self.prior_ordint, self.prior_spatialdim)
        ode_order == 1
        derivs == 0..ode_order
        impl == _match_residual_and_jacobian_to_ode_order(base.self, ode_order)
    IN  IF base.status # "ok" THEN base
        ELSE IF \E deriv \in derivs : proj2coord_raises(dummy_integrator, deriv)
        THEN Outcome(base.self, "IndexError", None)
        ELSE Outcome([base.self EXCEPT
                         !.projection_matrices =
                             Some(Arr([k \in 1..(ode_order + 1) |->
                                          proj2coord(dummy_integrator, k - 1)])),
                         !._residual = Some(impl[1]),
                         !._residual_jacobian = Some(impl[2])],
                     "ok", None)

\* the value of ode.f or ode.df at (t, y), and of a residual or Jacobian
\* assembled from it
OdeEval(fun, ode, t, y) == [fun |-> fun, ode |-> ode, t |-> t, y |-> y]
Residual(h1x, fy) == [minuend |-> h1x, subtrahend |-> fy]
ResidualJacobian(h1, dfy, h0) == [minuend |-> h1, subtrahend |-> [df |-> dfy, h0 |-> h0]]

\* ODEResidual._residual_first_order_ode
_residual_first_order_ode(self, t, x) ==
    LET h0 == Val(self.projection_matrices)[1]
        h1 == Val(self.projection_matrices)[2]
    IN  Residual(MatVec(h1, x), OdeEval("f", Val(self.ode), t, MatVec(h0, x)))

\* ODEResidual._residual_first_order_ode_jacobian
_residual_first_order_ode_jacobian(self, t, x) ==
    LET h0 == Val(self.projection_matrices)[1]
        h1 == Val(self.projection_matrices)[2]
    IN  ResidualJacobian(h1, OdeEval("df", Val(self.ode), t, MatVec(h0, x)), h0)

\* ODEResidualOperator.__call__ and ODEResidual.__call__: without an IVP
\* self.ivp.f is an attribute of None, without an ODE self._residual is None
\* and not callable
__call__(self, t, x) ==
    IF self.cls = "ODEResidualOperator"
    THEN IF IsNone(self.ivp) THEN Outcome(self, "AttributeError", None)
         ELSE Outcome(self, "ok",
                      Residual(MatVec(Val(self.h1), x),
                               OdeEval("f", Val(self.ivp), t, MatVec(Val(self.h0), x))))
    ELSE IF IsNone(self._residual) THEN Outcome(self, "TypeError", None)
         ELSE Outcome(self, "ok", _residual_first_order_ode(self, t, x))

\* ODEResidualOperator.jacobian and ODEResidual.jacobian
jacobian(self, t, x) ==
    IF self.cls = "ODEResidualOperator"
    THEN IF IsNone(self.ivp) THEN Outcome(self, "AttributeError", None)
         ELSE Outcome(self, "ok",
                      ResidualJacobian(Val(self.h1),
                                       OdeEval("df", Val(self.ivp), t,
                                               MatVec(Val(self.h0), x)),
                                       Val(self.h0)))
    ELSE IF IsNone(self._residual_jacobian) THEN Outcome(self, "TypeError", None)
         ELSE Outcome(self, "ok", _residual_first_order_ode_jacobian(self, t, x))

\* a method bound to an operator
BoundMethod(self, name) == [cls |-> self.cls, method |-> name]

\* DiscreteGaussian.from_callable: the nonlinear Gaussian transition with
\* the given dynamics and Jacobian and no process noise
from_callable(fun, jacob_fun, input_dim, output_dim) ==
    [cls |-> "DiscreteGaussian",
     input_dim |-> input_dim, output_dim |-> output_dim,
     state_trans_fun |-> fun,
     jacob_state_trans_fun |-> jacob_fun,
     proc_noise_cov_mat_fun |-> ConstFun(Zeros(output_dim, output_dim))]

\* InformationOperator.as_transition
as_transition(self) ==
    Outcome(self, "ok",
            from_callable(BoundMethod(self, "__call__"), BoundMethod(self, "jacobian"),
                          self.input_dim, self.output_dim))

(* The operators and the arguments of their calls.                          *)

MaxPriorOrdint == 2
MaxPriorSpatialdim == 2

Priors == (0..MaxPriorOrdint) \X (1..MaxPriorSpatialdim)

\* the operators that can be constructed
InformationOperators ==
    {ODEResidualOperator(p[1], p[2]) :
        p \in {pr \in Priors : ~ODEResidualOperator_raises(pr[1], pr[2])}}
    \cup {ODEResidual(p[1], p[2]) : p \in Priors}

\* initial value problems, by name
Odes == {"logistic", "fitzhughnagumo"}

-----------------------------------------------------------------------------
(* Normal random variables: randvars/_normal.py                             *)
(*                                                                         *)
(* An array is its shape and its entries: a number for shape (), a vector   *)
(* for shape (n,), a matrix for shape (n, m).                               *)

ndarray(shape, data) == [shape |-> shape, data |-> data]

\* backend.asarray of a number, a list and a list of lists
ScalarArray(x) == ndarray(<<>>, x)
VectorArray(v) == ndarray(<<Len(v)>>, v)
MatrixArray(A) == ndarray(<<NRows(A), NCols(A)>>, A)

\* mean.ndim
ndim(a) == Len(a.shape)

\* functools.reduce(operator.mul, shape, 1)
RECURSIVE reduce_mul(_)
reduce_mul(shape) == IF Len(shape) = 0 THEN 1 ELSE Head(shape) * reduce_mul(Tail(shape))

\* a faulty variant of expected_cov_shape: a scalar mean is treated as a
\* vector with one entry
ExpectedCovShapeNoScalarCase(mean) == <<reduce_mul(mean.shape), reduce_mul(mean.shape)>>

\* Normal.__init__, "Shape checking": expected_cov_shape
expected_cov_shape(mean) ==
    IF ndim(mean) > 0 THEN <<reduce_mul(mean.shape), reduce_mul(mean.shape)>> ELSE <<>>

\* the empty cache dictionary
EmptyCache == [k \in {} |-> <<>>]

NoNormal == [shape |-> <<>>, mean |-> ScalarArray(Q0), cov |-> ScalarArray(Q0),
             _cache |-> EmptyCache, exists |-> FALSE]

\* Normal.__init__(mean, cov, cache): the object, or the ValueError of the
\* shape check
Normal__init__(mean, cov, cache) ==
    IF cov.shape # expected_cov_shape(mean)
    THEN [status |-> "ValueError", self |-> NoNormal]
    ELSE [status |-> "ok",
          self |-> [shape |-> mean.shape, mean |-> mean, cov |-> cov,
                    _cache |-> IF IsNone(cache) THEN EmptyCache ELSE Val(cache),
                    exists |-> TRUE]]

\* backend.linalg.cholesky(cov, upper=False) raises for a matrix that is not
\* positive definite (numpy backend)
linalg_cholesky_raises(cov) == ~IsPD(cov.data)

\* Normal._cov_cholesky: the value, whether it raised, and the number of
\* factorisations (backend.sqrt / backend.linalg.cholesky) it ran
_cov_cholesky(self) ==
    IF "cov_cholesky" \in DOMAIN self._cache
    THEN [status |-> "ok", value |-> self._cache["cov_cholesky"], computed |-> 0]
    ELSE IF ndim(self.mean) = 0
    THEN [status |-> "ok", value |-> np_sqrt(self.cov.data), computed |-> 1]
    ELSE IF linalg_cholesky_raises(self.cov)
    THEN [status |-> "LinAlgError", value |-> None, computed |-> 1]
    ELSE [status |-> "ok", value |-> cholesky(self.cov.data), computed |-> 1]

\* Normal._cov_matrix_cholesky: the property _cov_cholesky is read for the
\* isinstance test and read again for the return value
_cov_matrix_cholesky(self) ==
    IF _cov_cholesky(self).status # "ok" THEN _cov_cholesky(self)
    ELSE [_cov_cholesky(self) EXCEPT !.computed = 2 * _cov_cholesky(self).computed]

\* cache["cov_cholesky"] = value
CacheWith(cache, key, value) ==
    [k \in DOMAIN cache \cup {key} |-> IF k = key THEN value ELSE cache[k]]

\* Normal.compute_cov_sqrtm: self afterwards (cache is self._cache, so the
\* assignment to cache stores into self), the Normal returned, and the number
\* of factorisations.  The factors of the covariances passed in hold no NaN.
compute_cov_sqrtm(self) ==
    IF "cov_cholesky" \in DOMAIN self._cache /\ "cov_eigh" \in DOMAIN self._cache
    THEN [status |-> "ok", self |-> self, value |-> self, computed |-> 0]
    ELSE IF "cov_cholesky" \in DOMAIN self._cache
    THEN [status |-> "ok", self |-> self,
          value |-> Normal__init__(self.mean, self.cov, Some(self._cache)).self,
          computed |-> 0]
    ELSE IF _cov_cholesky(self).status # "ok"
    THEN [status |-> _cov_cholesky(self).status, self |-> self, value |-> NoNormal,
          computed |-> _cov_cholesky(self).computed]
    ELSE [status |-> "ok",
          self |-> [self EXCEPT !._cache =
                       CacheWith(self._cache, "cov_cholesky", _cov_cholesky(self).value)],
          value |-> Normal__init__(self.mean, self.cov,
                       Some(CacheWith(self._cache, "cov_cholesky",
                                      _cov_cholesky(self).value))).self,
          computed |-> _cov_cholesky(self).computed]

\* the means and covariances Normal is constructed from
MaxAccesses == 3

NormalMeans ==
    {ScalarArray(FromInt(1)), VectorArray(IntVec(<<1>>)), VectorArray(IntVec(<<1, 2>>)),
     MatrixArray(IntMat(<<<<1, 2>>>>)), MatrixArray(IntMat(<<<<1>>, <<2>>>>))}

NormalCovs ==
    {ScalarArray(FromInt(4)), ScalarArray(Q0),
     VectorArray(IntVec(<<1>>)), VectorArray(IntVec(<<1, 1>>)),
     MatrixArray(IntMat(<<<<1>>>>)), MatrixArray(IntMat(<<<<1, 0>>>>)),
     MatrixArray(IntMat(<<<<1>>, <<0>>>>)),
     MatrixArray(IntMat(<<<<2, 1>>, <<1, 2>>>>)), MatrixArray(IntMat(<<<<1, 0>>, <<0, 1>>>>)),
     MatrixArray(IntMat(<<<<0, 0>>, <<0, 0>>>>))}
-----------------------------------------------------------------------------
(* Configuration: _config.py                                                *)
(*                                                                         *)
(* The object's __dict__ is a function from entry names to values; the      *)
(* keyword arguments of a call are a sequence of <<key, value>> pairs with  *)
(* distinct keys, in the order written.                                     *)

\* the attributes an object has through its class (methods such as
\* register, __call__, __setattr__); register is the one used as a key
ClassAttributes == {"register"}
BoundMethodOfClass == "<bound method>"

\* hasattr(self, key): an entry of __dict__ or an attribute of the class
hasattr(dict, key) == key \in DOMAIN dict \cup ClassAttributes

\* self.__dict__[key] = value, old_entries[key] = value
DictWith(dict, key, value) ==
    [k \in DOMAIN dict \cup {key} |-> IF k = key THEN value ELSE dict[k]]

\* self.__dict__.update(old_entries)
DictUpdate(dict, entries) ==
    [k \in DOMAIN dict \cup DOMAIN entries |->
        IF k \in DOMAIN entries THEN entries[k] ELSE dict[k]]

EmptyEntries == [k \in {} |-> ""]

\* Configuration.register(key, default_value, dostring): the body is pass
register(dict, key, default_value) == [status |-> "ok", dict |-> dict]

\* getattr(self, key)
getattr(dict, key) ==
    IF key \in DOMAIN dict THEN [status |-> "ok", value |-> dict[key]]
    ELSE IF key \in ClassAttributes THEN [status |-> "ok", value |-> BoundMethodOfClass]
    ELSE [status |-> "AttributeError", value |-> ""]

\* Configuration.__setattr__(key, value)
__setattr__(dict, key, value) ==
    IF ~hasattr(dict, key) THEN [status |-> "KeyError", dict |-> dict]
    ELSE [status |-> "ok", dict |-> DictWith(dict, key, value)]

\* Configuration.__call__(**kwargs) up to the yield: the loop over kwargs.
\* A KeyError leaves the loop before the try statement is reached, so the
\* entries overridden by then stay overridden.
RECURSIVE __call__enter(_, _, _)
__call__enter(dict, old_entries, kwargs) ==
    IF kwargs = <<>> THEN [status |-> "ok", dict |-> dict, old_entries |-> old_entries]
    ELSE IF ~hasattr(dict, kwargs[1][1])
    THEN [status |-> "KeyError", dict |-> dict, old_entries |-> old_entries]
    ELSE __call__enter(__setattr__(dict, kwargs[1][1], kwargs[1][2]).dict,
                       DictWith(old_entries, kwargs[1][1], getattr(dict, kwargs[1][1]).value),
                       Tail(kwargs))

\* Configuration.__call__ after the yield: the finally clause
__call__exit(dict, old_entries) == DictUpdate(dict, old_entries)

\* the entry names, values and keyword arguments used; the depth of nested
\* with blocks
MaxNesting == 2

ConfigKeys == {"covariance_inversion_damping", "default_floating_dtype"}
ConfigValues == {"1e-12", "1e-6", "1e-2", "float32"}

ConfigKwargs ==
    {<<>>}
    \cup {<<<<k, v>>>> : k \in ConfigKeys, v \in ConfigValues}
    \cup {<<<<"covariance_inversion_damping", v>>, <<"default_floating_dtype", w>>>> :
            v \in ConfigValues, w \in ConfigValues}
    \cup {<<<<"default_floating_dtype", w>>, <<"covariance_inversion_damping", v>>>> :
            v \in ConfigValues, w \in ConfigValues}
    \cup {<<<<"register", "1e-2">>>>,
          <<<<"register", "1e-2">>, <<"covariance_inversion_damping", "1e-6">>>>}
-----------------------------------------------------------------------------
(* ODE solver loop: diffeq/_odesolver.py                                    *)
(*                                                                         *)
(* Times and steps are integers (multiples of one unit).                    *)

Min(a, b) == IF a <= b THEN a ELSE b

\* _time_stopper(locations): location_iter = iter(locations) and
\* initial_location = next(location_iter); the iterator is the number of
\* locations it has handed out
_time_stopper(locations) ==
    [locations |-> locations, initial_location |-> locations[1], location_iter |-> 1]

\* adjust(t, dt, next_location=initial_location) of _time_stopper: the dt
\* returned and the iterator afterwards.  next_location is a parameter of
\* adjust with a default value, so every call starts from initial_location;
\* location_iter belongs to the enclosing call and keeps its position.
adjust(stopper, t, dt) ==
    LET advance == t >= stopper.initial_location
        exhausted == stopper.location_iter >= Len(stopper.locations)
        next_is_inf == advance /\ exhausted
        next_location ==
            IF ~advance THEN stopper.initial_location
            ELSE stopper.locations[stopper.location_iter + 1]
    IN  [dt |-> IF ~next_is_inf /\ t + dt > next_location
                THEN next_location - t ELSE dt,
         stopper |-> IF advance /\ ~exhausted
                     THEN [stopper EXCEPT !.location_iter = @ + 1]
                     ELSE stopper]

\* ODESolver._process_event_inputs: the time stopper, or None without stop_at
_process_event_inputs(stop_at) ==
    IF IsNone(stop_at) THEN None ELSE Some(_time_stopper(Val(stop_at)))

\* lines 79-80 of solution_generator
adjust_dt_to_time_stops(stopper, t, dt) ==
    IF IsNone(stopper) THEN [dt |-> dt, stopper |-> stopper]
    ELSE [dt |-> adjust(Val(stopper), t, dt).dt,
          stopper |-> Some(adjust(Val(stopper), t, dt).stopper)]

\* ODESolver.perform_full_step(state, initial_dt) when the attempt with
\* step accepted_dt is the one the step rule accepts and suggested_dt is
\* what it suggests then: the new time and the next dt
perform_full_step(t, tmax, accepted_dt, suggested_dt) ==
    [t |-> t + accepted_dt, dt |-> Min(suggested_dt, tmax - (t + accepted_dt))]

\* the end of the time interval, the largest step, the stop locations
MaxTmax == 5
MaxStep == 3

StepSizes == 1..MaxStep

RECURSIVE IncreasingFrom(_)
IncreasingFrom(lo) ==
    IF lo > MaxTmax THEN {<<>>}
    ELSE {<<>>} \cup UNION {{<<l>> \o s : s \in IncreasingFrom(l + 1)} : l \in lo..MaxTmax}

StopAtLocations == {Some(s) : s \in IncreasingFrom(1) \ {<<>>}} \cup {None}
-----------------------------------------------------------------------------
(* Time-invariant linear Gaussian transitions: discrete_transition.py       *)

\* a faulty variant of _check_dimensions: the shift vector's length is not
\* compared with the other shapes
CheckDimensionsIgnoringShift(state_trans_mat, shift_vec, proc_noise_cov_mat) ==
    IF ndim(state_trans_mat) # 2 THEN "TypeError"
    ELSE IF ndim(shift_vec) # 1 THEN "TypeError"
    ELSE IF ndim(proc_noise_cov_mat) # 2 THEN "TypeError"
    ELSE IF \/ state_trans_mat.shape[1] # proc_noise_cov_mat.shape[1]
            \/ proc_noise_cov_mat.shape[1] # proc_noise_cov_mat.shape[2]
    THEN "TypeError"
    ELSE "ok"

\* _check_dimensions(state_trans_mat, shift_vec, proc_noise_cov_mat)
_check_dimensions(state_trans_mat, shift_vec, proc_noise_cov_mat) ==
    IF ndim(state_trans_mat) # 2 THEN "TypeError"
    ELSE IF ndim(shift_vec) # 1 THEN "TypeError"
    ELSE IF ndim(proc_noise_cov_mat) # 2 THEN "TypeError"
    ELSE IF \/ state_trans_mat.shape[1] # shift_vec.shape[1]
            \/ shift_vec.shape[1] # proc_noise_cov_mat.shape[1]
            \/ proc_noise_cov_mat.shape[1] # proc_noise_cov_mat.shape[2]
    THEN "TypeError"
    ELSE "ok"

NoLti == [cls |-> "none"]

\* DiscreteLTIGaussian.__init__: the transition, or the TypeError of
\* _check_dimensions
DiscreteLTIGaussian(state_trans_mat, shift_vec, proc_noise_cov_mat, fwd, bwd) ==
    IF _check_dimensions(state_trans_mat, shift_vec, proc_noise_cov_mat) # "ok"
    THEN [status |-> _check_dimensions(state_trans_mat, shift_vec, proc_noise_cov_mat),
          self |-> NoLti]
    ELSE [status |-> "ok",
          self |-> [state_trans_mat |-> state_trans_mat,
                    shift_vec |-> shift_vec,
                    proc_noise_cov_mat |-> proc_noise_cov_mat]
                   @@ DiscreteLinearGaussian(state_trans_mat.shape[2],
                                             state_trans_mat.shape[1],
                                             ConstFun(state_trans_mat.data),
                                             ConstFun(shift_vec.data),
                                             ConstFun(proc_noise_cov_mat.data),
                                             fwd, bwd)]
-----------------------------------------------------------------------------
(* Integrators: filtsmooth/statespace/integrator.py                         *)

\* scipy.special.binom(n, k) for integers n >= 0 and k
binom(n, k) == IF k < 0 \/ k > n THEN 0 ELSE Factorial(n) \div (Factorial(k) * Factorial(n - k))

\* NordsieckLikeCoordinates.from_order(order, dimension)
NordsieckLikeCoordinates_from_order(order, dimension) ==
    [num_derivatives |-> order, wiener_process_dimension |-> dimension]

\* IBM._driftmat
IBM_driftmat(self) ==
    LET driftmat_1d ==
            Arr([i \in 1..(self.ordint + 1) |->
                Arr([j \in 1..(self.ordint + 1) |-> IF j = i + 1 THEN Q1 ELSE Q0])])
    IN  Kron(Eye(self.spatialdim), driftmat_1d)

\* IBM._forcevec
IBM_forcevec(self) ==
    LET force_1d == <<ZeroVec(self.ordint + 1)>>
        ones == <<Arr([i \in 1..self.spatialdim |-> Q1])>>
    IN  Kron(ones, force_1d)[1]

\* IBM._dispmat
IBM_dispmat(self) ==
    LET dispmat_1d == <<Arr([j \in 1..(self.ordint + 1) |->
                            IF j = self.ordint + 1 THEN Q1 ELSE Q0])>>
    IN  Transpose(Kron(Eye(self.spatialdim), dispmat_1d))

\* IBM.__init__: both base classes are initialised, then the preconditioner
\* is set up
IBM(ordint, spatialdim) ==
    [cls |-> "IBM", ordint |-> ordint, spatialdim |-> spatialdim,
     precon |-> Some(NordsieckLikeCoordinates_from_order(ordint, spatialdim)),
     driftmat |-> IBM_driftmat(Integrator(ordint, spatialdim)),
     forcevec |-> IBM_forcevec(Integrator(ordint, spatialdim)),
     dispmat |-> IBM_dispmat(Integrator(ordint, spatialdim))]

\* a faulty variant of IBM._state_trans_mat: the arguments of binom are
\* those of the transposed entry
StateTransMatTransposed(self) ==
    LET driftmat_1d ==
            Arr([i \in 1..(self.ordint + 1) |->
                Arr([j \in 1..(self.ordint + 1) |->
                    FromInt(binom(self.ordint + 1 - j, self.ordint + 1 - i))])])
    IN  Kron(Eye(self.spatialdim), driftmat_1d)

\* IBM._state_trans_mat (rows and columns are counted from 1 here)
IBM_state_trans_mat(self) ==
    LET driftmat_1d ==
            Arr([i \in 1..(self.ordint + 1) |->
                Arr([j \in 1..(self.ordint + 1) |->
                    FromInt(binom(self.ordint + 1 - i, self.ordint + 1 - j))])])
    IN  Kron(Eye(self.spatialdim), driftmat_1d)

\* IBM._proc_noise_cov_mat
IBM_proc_noise_cov_mat(self) ==
    LET proc_noise_cov_mat_1d ==
            Arr([i \in 1..(self.ordint + 1) |->
                Arr([j \in 1..(self.ordint + 1) |->
                    RInv(FromInt(2 * self.ordint + 3 - i - j))])])
    IN  Kron(Eye(self.spatialdim), proc_noise_cov_mat_1d)

\* IBM.equivalent_discretisation_preconditioned
IBM_equivalent_discretisation_preconditioned(self) ==
    DiscreteLTIGaussian(MatrixArray(IBM_state_trans_mat(self)),
                        VectorArray(ZeroVec(self.spatialdim * (self.ordint + 1))),
                        MatrixArray(IBM_proc_noise_cov_mat(self)),
                        "classic", "classic").self

\* IBM.discretise(step)
IBM_discretise(self, step) ==
    DiscreteLTIGaussian(
        MatrixArray(MatMul(MatMul(precon(Val(self.precon), step),
                                  IBM_equivalent_discretisation_preconditioned(self)
                                      .state_trans_mat.data),
                           precon_inverse(Val(self.precon), step))),
        VectorArray(ZeroVec(self.spatialdim * (self.ordint + 1))),
        MatrixArray(MatMul(MatMul(precon(Val(self.precon), step),
                                  IBM_equivalent_discretisation_preconditioned(self)
                                      .proc_noise_cov_mat.data),
                           Transpose(precon(Val(self.precon), step)))),
        "classic", "classic").self

\* the end of IBM.transition_rv: the cross-covariance and the belief are
\* mapped back with precon(step)
IBM_transition_rv_undo(self, step, inner) ==
    Return(apply_precon(precon(Val(self.precon), step), inner.rv),
           [crosscov |-> MatMul(MatMul(precon(Val(self.precon), step), inner.info.crosscov),
                                Transpose(precon(Val(self.precon), step)))])

\* IBM.transition_rv(rv, start, stop, _diffusion): a TypeError unless rv is a
\* Normal.  The transition through the preconditioned discretisation is the
\* forward transition of that DiscreteLTIGaussian, without a gain.
IBM_transition_rv(self, rv, start, stop, _diffusion) ==
    IF "cov" \notin DOMAIN rv THEN Raise("TypeError")
    ELSE IBM_transition_rv_undo(self, RSub(stop, FromInt(start)),
             forward_rv(IBM_equivalent_discretisation_preconditioned(self),
                        apply_precon(precon_inverse(Val(self.precon),
                                                    RSub(stop, FromInt(start))), rv),
                        start, FALSE, _diffusion))

\* integrators: the base class, IBM, and the IOUP transition
IntegratorObject(cls, obj) == [cls |-> cls, obj |-> obj]

Integrators ==
    {IntegratorObject("Integrator", Integrator(q, d)) : <<q, d>> \in Priors}
    \cup {IntegratorObject("IBM", IBM(q, d)) : <<q, d>> \in Priors}
    \cup {IntegratorObject("IOUP", IntegratedOrnsteinUhlenbeckTransition(q, d, driftspeed)) :
            <<q, d, driftspeed>> \in
                (0..MaxPriorOrdint) \X (1..MaxPriorSpatialdim) \X DriftSpeeds}

\* steps whose square root is rational
IbmSteps == {Rat(1, 4), FromInt(1), Rat(9, 4), FromInt(4)}

\* what transition_rv is called with: Normals and an array
IbmBeliefs(n) == {IoupNormal(n), IoupPointMass(n), [mean |-> Arange(n)]}
-----------------------------------------------------------------------------
(* The filtering/smoothing driver (Kalman.filtsmooth).  The driver is not    *)
(* among the sources; it is modelled from the specification's description   *)
(* of the forward and backward pass.  The steps it takes are the forward_rv *)
(* and backward_rv of discrete_transition.py.                               *)

MaxKalmanTime == 3

KalmanTimes == 0..MaxKalmanTime

\* a random walk whose process noise grows with time, observed with unit
\* noise
KalmanDynamics ==
    DiscreteLinearGaussian(1, 1, [t \in KalmanTimes |-> <<<<Q1>>>>],
                           [t \in KalmanTimes |-> <<Q0>>],
                           [t \in KalmanTimes |-> <<<<FromInt(1 + t)>>>>],
                           "classic", "joseph")

KalmanMeasurement ==
    DiscreteLinearGaussian(1, 1, [t \in KalmanTimes |-> <<<<Q1>>>>],
                           [t \in KalmanTimes |-> <<Q0>>],
                           [t \in KalmanTimes |-> <<<<Q1>>>>],
                           "classic", "joseph")

KalmanInitrv == Normal(<<Q0>>, <<<<Q1>>>>)

\* the forward quantities the driver caches for the backward pass
ForwardQuantities(fwd) == [rv_forwarded |-> fwd.rv, gain |-> fwd.info.gain]

\* predict: forward_rv of the dynamics from the belief at time t, with the
\* gain
kalman_predict(rv, t) == forward_rv(KalmanDynamics, rv, t, TRUE, Q1)

\* the measurement update of a predicted belief with the observation made
\* at time t
kalman_update_with(pred, measured, data, t) ==
    backward_realization(KalmanMeasurement, data, pred, Some(measured.rv),
                         Some(measured.info.gain), t, Q1).rv

kalman_update(pred, data, t) ==
    kalman_update_with(pred, forward_rv(KalmanMeasurement, pred, t, TRUE, Q1), data, t)

\* a faulty variant of smoothing_order: the time points are visited in
\* increasing order
SmoothingOrderIncreasing(n) == [i \in 1..(n - 1) |-> i]

\* the indices the backward pass visits: n - 1 down to 1
smoothing_order(n) == [i \in 1..(n - 1) |-> n - i]

\* the smoothing step at index k of the backward pass
kalman_smooth_step(smoothed, filtered, cached, times, k) ==
    backward_rv(KalmanDynamics, smoothed[k + 1], filtered[k],
                Some(cached[k].rv_forwarded), Some(cached[k].gain), times[k], Q1).rv

\* the regression problems: strictly increasing locations and one
\* observation per location
RECURSIVE StrictlyIncreasing(_)
StrictlyIncreasing(s) ==
    Len(s) <= 1 \/ (s[1] < s[2] /\ StrictlyIncreasing(Tail(s)))

KalmanLocations ==
    {s \in UNION {[1..n -> KalmanTimes] : n \in 1..(MaxKalmanTime + 1)} :
        StrictlyIncreasing(s)}

KalmanObservations(n) == [1..n -> {<<Q0>>, <<FromInt(2)>>}]
-----------------------------------------------------------------------------
(* The attempts of a step: ODESolver.perform_full_step with the attempts of *)
(* a PerturbedStepSolver, and the callbacks of solution_generator.          *)
(*                                                                         *)
(* A solver state is its time, the callbacks that have been applied to it   *)
(* (in order), and the number of the attempt that proposed it (0 for the    *)
(* initial state).                                                          *)

SolverState(t, marks, attempt) == [t |-> t, marks |-> marks, attempt |-> attempt]

\* attempt_step(state, dt): the proposal advances the time by dt
attempt_step(state, dt, attempt) == SolverState(state.t + dt, state.marks, attempt)

\* the random number generator is a seeded stream: its k-th draw perturbs a
\* step by the factor 1/2 or 3/2
perturb_step(rng, step) ==
    RMul(FromInt(step), IF (rng.seed + rng.draws) % 2 = 0 THEN Rat(1, 2) ELSE Rat(3, 2))

rng_advance(rng) == [rng EXCEPT !.draws = @ + 1]

\* PerturbedStepSolver.initialise: the scales are reset
PerturbedStepSolver_initialise(self) == [self EXCEPT !.scales = <<>>]

\* PerturbedStepSolver.step(start, stop, current): the step is perturbed and
\* the scale noisy_step / dt is recorded
PerturbedStepSolver_step(self, start, stop) ==
    [self EXCEPT !.scales = Append(@, RDiv(perturb_step(self.rng, stop - start),
                                           FromInt(stop - start))),
                 !.rng = rng_advance(@)]

\* a faulty variant of next_dt: the remaining time is measured from the
\* proposal after a rejection too
NextDtFromProposal(step_is_sufficiently_small, suggested_dt, tmax, state, proposed_state) ==
    Min(suggested_dt, tmax - proposed_state.t)

\* lines 128-132 of perform_full_step: the step size after an attempt
next_dt(step_is_sufficiently_small, suggested_dt, tmax, state, proposed_state) ==
    IF step_is_sufficiently_small
    THEN Min(suggested_dt, tmax - proposed_state.t)
    ELSE Min(suggested_dt, tmax - state.t)

\* a callback marks the state it is given
callback(id, state) == [state EXCEPT !.marks = Append(@, id)]

\* lines 84-86 of solution_generator: for callback in callbacks:
\* state = callback(state)
RECURSIVE fold_callbacks(_, _)
fold_callbacks(cbs, state) ==
    IF cbs = <<>> THEN state ELSE fold_callbacks(Tail(cbs), callback(Head(cbs), state))

\* a faulty variant of apply_callbacks: every callback is given the proposed
\* state, and the result of the last one is kept
ApplyCallbacksUnchained(callbacks, state) ==
    IF IsNone(callbacks) \/ Val(callbacks) = <<>> THEN state
    ELSE callback(Val(callbacks)[Len(Val(callbacks))], state)

apply_callbacks(callbacks, state) ==
    IF IsNone(callbacks) THEN state ELSE fold_callbacks(Val(callbacks), state)

\* the most attempts the step rule rejects within one step
MaxRejections == 1

\* the most calls of solve on one solver object
MaxSolves == 2

\* the ends of the time interval, the step sizes of the step rule (first
\* step and suggestions), the callbacks passed to solve
EndTimes == {1, 2, 3}
RuleSteps == {1, 2}
CallbackOptions == {None, Some(<<"a">>), Some(<<"a", "b">>)}
Seeds == {1}
-----------------------------------------------------------------------------
(* Matrix-based linear belief update:                                       *)
(* linalg/solvers/belief_updates/_matrix_based_linear_belief_update.py      *)

\* linops.Kronecker(A, B) and a covariance without Kronecker structure
Kronecker(A, B) == [cls |-> "Kronecker", A |-> A, B |-> B]
DenseCov(C) == [cls |-> "Matrix", C |-> C]

\* a matrix-variate Normal: mean and covariance operator
MatrixNormal(mean, cov) == [mean |-> mean, cov |-> cov]

Dot(x, y) == SumTo([i \in 1..Len(x) |-> RMul(x[i], y[i])], Len(x))

VecScale(r, x) == Arr([i \in 1..Len(x) |-> RMul(r, x[i])])

\* aslinop(x[:, None]) @ aslinop(y[None, :])
Outer(x, y) == Arr([i \in 1..Len(x) |-> Arr([j \in 1..Len(y) |-> RMul(x[i], y[j])])])

\* gram_pinv = 1.0 / gram if gram > 0.0 else 0.0
gram_pinv(gram) == IF RLt(Q0, gram) THEN RInv(gram) ELSE Q0

UpdateRaise(exc) == [status |-> exc]
UpdateReturn(rv) == [status |-> "ok", rv |-> rv]

\* a faulty variant of _matrix_based_update: the residual is pred - observ
MatrixBasedUpdateResidualNegated(matrix, action, observ) ==
    IF matrix.cov.cls # "Kronecker" THEN UpdateRaise("ValueError")
    ELSE UpdateReturn(MatrixNormal(
             MatAdd(matrix.mean,
                    Outer(VecSub(MatVec(matrix.mean, action), observ),
                          VecScale(gram_pinv(Dot(action, MatVec(matrix.cov.B, action))),
                                   MatVec(matrix.cov.B, action)))),
             Kronecker(matrix.cov.A,
                       MatSub(matrix.cov.B,
                              Outer(VecScale(gram_pinv(Dot(action, MatVec(matrix.cov.B, action))),
                                             MatVec(matrix.cov.B, action)),
                                    MatVec(matrix.cov.B, action))))))

\* MatrixBasedLinearBeliefUpdate._matrix_based_update(matrix, action, observ)
_matrix_based_update(matrix, action, observ) ==
    IF matrix.cov.cls # "Kronecker" THEN UpdateRaise("ValueError")
    ELSE LET pred == MatVec(matrix.mean, action)
             resid == VecSub(observ, pred)
             covfactor_Ms == MatVec(matrix.cov.B, action)
             gram == Dot(action, covfactor_Ms)
             gain == VecScale(gram_pinv(gram), covfactor_Ms)
             covfactor_update == Outer(gain, covfactor_Ms)
             resid_gain == Outer(resid, gain)
         IN  UpdateReturn(MatrixNormal(
                 MatAdd(matrix.mean, resid_gain),
                 Kronecker(matrix.cov.A, MatSub(matrix.cov.B, covfactor_update))))

\* the beliefs N(M, V (x) W): means, left factors, symmetric positive
\* semidefinite right factors (regular, singular and zero), and covariances
\* without Kronecker structure; actions and observations
UpdateMeans == {IntMat(<<<<1, 0>>, <<0, 1>>>>), IntMat(<<<<2, 1>>, <<0, 1>>>>), IntMat(<<<<0, 0>>, <<0, 0>>>>)}
UpdateLeftFactors == {IntMat(<<<<1, 0>>, <<0, 1>>>>), IntMat(<<<<2, 1>>, <<1, 1>>>>)}
UpdateRightFactors == {IntMat(<<<<1, 0>>, <<0, 1>>>>), IntMat(<<<<2, 1>>, <<1, 2>>>>), IntMat(<<<<1, 0>>, <<0, 0>>>>), IntMat(<<<<0, 0>>, <<0, 0>>>>)}
UpdateCovs == {Kronecker(V, W) : V \in UpdateLeftFactors, W \in UpdateRightFactors} \cup {DenseCov(Kron(IntMat(<<<<1, 0>>, <<0, 1>>>>), IntMat(<<<<2, 1>>, <<1, 2>>>>)))}
UpdateActions == {IntVec(<<a, b>>) : a \in {-1, 0, 1}, b \in {0, 1, 2}}
UpdateObservations == {IntVec(<<a, b>>) : a \in {0, 1}, b \in {-1, 3}}
-----------------------------------------------------------------------------
(* Moment equations of a scalar linear SDE solved with RK4:                 *)
(* filtsmooth/statespace/sde_utils.py                                       *)
(*                                                                         *)
(* The SDE is dx = (G x + v) dt + L dw with constant G, v, L; mean and      *)
(* covariance are rationals (1x1 arrays).                                   *)

\* _increment_fun(time, mean, cov, driftfun, jacobfun, dispmatfun, _diffusion)
_increment_fun(sde, time, mean, cov) ==
    [m |-> RAdd(RMul(sde.G, mean), sde.v),
     c |-> RAdd(RAdd(RMul(cov, sde.G), RMul(sde.G, cov)),
                RMul(sde._diffusion, RMul(sde.L, sde.L)))]

RHalf(x) == RDiv(x, FromInt(2))

\* the weighted sum step * (k1 + 2 k2 + 2 k3 + k4) / 6
Rk4Sum(step, k1, k2, k3, k4) ==
    RDiv(RMul(step, RAdd(RAdd(k1, RMul(FromInt(2), k2)), RAdd(RMul(FromInt(2), k3), k4))),
         FromInt(6))

Rk4Stage4(sde, mean, cov, time, step, k1, k2, k3) ==
    [mean |-> RAdd(mean, Rk4Sum(step, k1.m, k2.m, k3.m,
                                _increment_fun(sde, RAdd(time, step),
                                               RAdd(mean, RMul(step, k3.m)),
                                               RAdd(cov, RMul(step, k3.c))).m)),
     cov |-> RAdd(cov, Rk4Sum(step, k1.c, k2.c, k3.c,
                              _increment_fun(sde, RAdd(time, step),
                                             RAdd(mean, RMul(step, k3.m)),
                                             RAdd(cov, RMul(step, k3.c))).c)),
     time |-> RAdd(time, step)]

Rk4Stage3(sde, mean, cov, time, step, k1, k2) ==
    Rk4Stage4(sde, mean, cov, time, step, k1, k2,
              _increment_fun(sde, RAdd(time, RHalf(step)),
                             RAdd(mean, RHalf(RMul(step, k2.m))),
                             RAdd(cov, RHalf(RMul(step, k2.c)))))

Rk4Stage2(sde, mean, cov, time, step, k1) ==
    Rk4Stage3(sde, mean, cov, time, step, k1,
              _increment_fun(sde, RAdd(time, RHalf(step)),
                             RAdd(mean, RHalf(RMul(step, k1.m))),
                             RAdd(cov, RHalf(RMul(step, k1.c)))))

\* a faulty variant of _rk4_step: the time advances by half a step
Rk4StepHalfTime(sde, mean, cov, time, step) ==
    [Rk4Stage2(sde, mean, cov, time, step, _increment_fun(sde, time, mean, cov))
       EXCEPT !.time = RAdd(time, RHalf(step))]

\* _rk4_step(mean, cov, time, step, fun)
_rk4_step(sde, mean, cov, time, step) ==
    Rk4Stage2(sde, mean, cov, time, step, _increment_fun(sde, time, mean, cov))

\* the latest end of the interval
MaxStop == 3

\* starts, step sizes (-1 .. 2 units), coefficients of the SDE
\* and initial moments
MomentStarts == {0, 1}
MomentSteps == {Rat(-1, 1), Q0, Q1, Rat(2, 1)}
MomentSdes == {[G |-> FromInt(g), v |-> FromInt(v), L |-> Q1, _diffusion |-> Q1] : g \in {-1, 0}, v \in {0, 1}}
MomentRvs == {[mean |-> Q1, cov |-> Q0], [mean |-> Q0, cov |-> Q1]}
-----------------------------------------------------------------------------
(* State.                                                                   *)
(*                                                                         *)
(* Discrete transitions: the transition (one object per backward           *)
(* implementation, built from the same arguments), the call in progress     *)
(* and what each object returned for it.                                    *)

VARIABLES objs, call, ret

\* the IOUP transition shared by the callers, each caller's call in progress,
\* the number of calls begun, whether a call has raised
VARIABLES transition, frames, ncalls, raised

\* the information operator and what the last operation on it left behind
VARIABLES info_op, outcome

\* the Normal under test, what the last operation on it left behind, the
\* number of factorisations run and of accesses made
VARIABLES normal_rv, normal_outcome, cholesky_calls, naccesses

\* the configuration object's __dict__, the with blocks entered and not yet
\* left (innermost last), what the last operation left behind
VARIABLES config_dict, config_blocks, config_outcome

\* the solver loop (position, time, dt, time stopper), the times of the states
\* yielded, and the last adjustment of dt
VARIABLES solver, yielded, adjusted

\* the integrator and what the last operation on it returned
VARIABLES integ, integ_outcome

\* the time-invariant transition constructed, and what the constructor or the
\* last operation on the transition returned
VARIABLES lti, lti_outcome

\* the driver (position, regression problem, filtered beliefs, cached forward
\* quantities, smoothed beliefs), the steps it has taken, and the posterior
\* it returns
VARIABLES kalman, kalman_log, posterior

\* the run of a perturbed-step solver (position, current state, dt, the
\* solver's scales and generator), the attempts made so far, and the states
\* yielded
VARIABLES run, attempts, outputs

\* a time stopper called on its own: the object and its last call
VARIABLES stopper_obj, stopper_call

\* a call of MatrixBasedLinearBeliefUpdate._matrix_based_update
VARIABLES belief_update

\* a call of solve_moment_equations_forward
VARIABLES moments

vars == <<objs, call, ret, transition, frames, ncalls, raised, info_op, outcome,
          normal_rv, normal_outcome, cholesky_calls, naccesses,
          config_dict, config_blocks, config_outcome, solver, yielded, adjusted,
          integ, integ_outcome, lti, lti_outcome,
          kalman, kalman_log, posterior,
          run, attempts, outputs, stopper_obj, stopper_call, belief_update, moments>>

DiscreteVars == <<objs, call, ret>>
IoupVars == <<transition, frames, ncalls, raised>>
InfoOpVars == <<info_op, outcome>>
NormalVars == <<normal_rv, normal_outcome, cholesky_calls, naccesses>>

ConfigVars == <<config_dict, config_blocks, config_outcome>>

SolverVars == <<solver, yielded, adjusted>>

IntegratorVars == <<integ, integ_outcome>>

LtiVars == <<lti, lti_outcome>>

KalmanVars == <<kalman, kalman_log, posterior>>

StepVars == <<run, attempts, outputs>>

StopperVars == <<stopper_obj, stopper_call>>

UpdateVars == <<belief_update>>

MomentVars == <<moments>>

\* the variables of the objects the first three state machines do not use
LaterVars == <<NormalVars, ConfigVars, SolverVars, IntegratorVars, LtiVars, KalmanVars, StepVars, StopperVars, UpdateVars, MomentVars>>

NoCall ==
    [op |-> "none", rv |-> NoRv, rv_obtained |-> NoRv, real |-> <<>>,
     rv_forwarded |-> None, gain |-> None, t |-> 0,
     compute_gain |-> FALSE, _diffusion |-> Q1]

NoResult == [status |-> "none", rv |-> NoRv, info |-> EmptyDict]

Callers == {1, 2}

IoupNoArgs ==
    [rv |-> NoRv, rv_obtained |-> NoRv, rv_forwarded |-> None, gain |-> None,
     t |-> 0, dt |-> None, compute_gain |-> FALSE, _diffusion |-> Q1]

NoFrame ==
    [pc |-> "idle", op |-> "none", args |-> IoupNoArgs, local |-> IoupNoArgs,
     model |-> NoModel, inner |-> NoResult, result |-> NoResult]

NoTransition == IntegratedOrnsteinUhlenbeckTransition(0, 1, Q0)

\* the values of the variables of the objects a specification does not use
DiscreteUnused ==
    /\ objs = [b \in BackwardImplementations |->
                  DiscreteGaussian(1, 1, "square", ConstFun(Zeros(1, 1)))]
    /\ call = NoCall
    /\ ret = [b \in BackwardImplementations |-> NoResult]

IoupUnused ==
    /\ transition = NoTransition
    /\ frames = [c \in Callers |-> NoFrame]
    /\ ncalls = 0
    /\ raised = FALSE

NoInformationOperator == InformationOperator("none", 0, 0)

NoOutcome == [op |-> "none", arg |-> None, status |-> "none", value |-> None]

InfoOpUnused ==
    /\ info_op = NoInformationOperator
    /\ outcome = NoOutcome


NoNormalOutcome ==
    [op |-> "none", mean |-> ScalarArray(Q0), cov |-> ScalarArray(Q0),
     status |-> "none", value |-> None]

NormalUnused ==
    /\ normal_rv = NoNormal
    /\ normal_outcome = NoNormalOutcome
    /\ cholesky_calls = 0
    /\ naccesses = 0

NoConfigOutcome ==
    [op |-> "none", key |-> "", value |-> "", kwargs |-> <<>>, status |-> "none",
     result |-> ""]

ConfigUnused ==
    /\ config_dict = EmptyEntries
    /\ config_blocks = <<>>
    /\ config_outcome = NoConfigOutcome

NoAdjust == [t |-> -1, dt |-> 0, result |-> 0]

SolverUnused ==
    /\ solver = [pc |-> "none", t |-> 0, tmax |-> 0, dt |-> 0, stop_at |-> None,
                 time_stopper |-> None, num_steps |-> 0]
    /\ yielded = <<>>
    /\ adjusted = NoAdjust

NoIntegratorOutcome == [op |-> "none", status |-> "none"]

IntegratorUnused ==
    /\ integ = IntegratorObject("none", None)
    /\ integ_outcome = NoIntegratorOutcome

NoLtiOutcome == [op |-> "none", status |-> "none"]

LtiUnused ==
    /\ lti = NoLti
    /\ lti_outcome = NoLtiOutcome

NoPosterior == [locations |-> <<>>, states |-> <<>>]

KalmanUnused ==
    /\ kalman = [pc |-> "none"]
    /\ kalman_log = <<>>
    /\ posterior = NoPosterior

StepsUnused ==
    /\ run = [pc |-> "none"]
    /\ attempts = <<>>
    /\ outputs = <<>>

NoStopperCall == [op |-> "none"]

StopperUnused ==
    /\ stopper_obj = [locations |-> <<>>, initial_location |-> 0, location_iter |-> 0]
    /\ stopper_call = NoStopperCall

UpdateUnused == belief_update = [op |-> "none"]

MomentsUnused == moments = [pc |-> "none"]

LaterUnused ==
    /\ NormalUnused
    /\ ConfigUnused
    /\ SolverUnused
    /\ IntegratorUnused
    /\ LtiUnused
    /\ KalmanUnused
    /\ StepsUnused
    /\ StopperUnused
    /\ UpdateUnused
    /\ MomentsUnused
-----------------------------------------------------------------------------
(* Calls on a discrete transition: one object per backward implementation,  *)
(* built from the same arguments, receives each call.                       *)

Init ==
    /\ objs \in LinearTriples \cup NonlinearTriples
    /\ call = NoCall
    /\ ret = [b \in BackwardImplementations |-> NoResult]
    /\ IoupUnused
    /\ InfoOpUnused
    /\ LaterUnused

Idle == call.op = "none"

InputDim == objs["classic"].input_dim
OutputDim == objs["classic"].output_dim
Shape == <<InputDim, OutputDim>>

\* transition.forward_rv(rv, t, compute_gain=..., _diffusion=...)
ForwardRv ==
    /\ Idle
    /\ \E rv \in Normals(InputDim), t \in Times, cg \in BOOLEAN, s \in Diffusions :
         /\ call' = [NoCall EXCEPT !.op = "forward_rv", !.rv = rv, !.t = t,
                                   !.compute_gain = cg, !._diffusion = s]
         /\ ret' = [b \in BackwardImplementations |-> forward_rv(objs[b], rv, t, cg, s)]
    /\ UNCHANGED objs
    /\ UNCHANGED <<IoupVars, InfoOpVars, LaterVars>>

\* transition.forward_realization(real, t, _diffusion=...)
ForwardRealization ==
    /\ Idle
    /\ \E real \in Means(InputDim), t \in Times, s \in Diffusions :
         /\ call' = [NoCall EXCEPT !.op = "forward_realization", !.real = real,
                                   !.t = t, !._diffusion = s]
         /\ ret' = [b \in BackwardImplementations |->
                        forward_realization(objs[b], real, t, s)]
    /\ UNCHANGED objs
    /\ UNCHANGED <<IoupVars, InfoOpVars, LaterVars>>

\* the (rv_forwarded, gain) pairs backward_rv is called with: both omitted,
\* both taken from forward_rv(rv, t, compute_gain=True, _diffusion), only the
\* rv_forwarded of that call, or only a gain that is not the Kalman gain
CachedForward(rv, t, s) == forward_rv(objs["classic"], rv, t, TRUE, s)

BackwardOptions(rv, t, s) ==
    {<<None, None>>}
    \cup (IF CachedForward(rv, t, s).status = "ok"
          THEN {<<Some(CachedForward(rv, t, s).rv),
                  Some(CachedForward(rv, t, s).info.gain)>>,
                <<Some(CachedForward(rv, t, s).rv), None>>}
          ELSE {})
    \cup (IF objs["classic"].cls = "DiscreteLinearGaussian"
          THEN {<<None, Some(g)>> : g \in OtherGains(Shape)}
          ELSE {})

\* transition.backward_rv(rv_obtained, rv, rv_forwarded=..., gain=..., t=...,
\*                        _diffusion=...)
BackwardRv ==
    /\ Idle
    /\ \E rv_obtained \in ObtainedNormals(OutputDim), rv \in Normals(InputDim),
          t \in Times, s \in Diffusions :
         \E opt \in BackwardOptions(rv, t, s) :
           /\ call' = [NoCall EXCEPT !.op = "backward_rv", !.rv_obtained = rv_obtained,
                                     !.rv = rv, !.rv_forwarded = opt[1],
                                     !.gain = opt[2], !.t = t, !._diffusion = s]
           /\ ret' = [b \in BackwardImplementations |->
                          backward_rv(objs[b], rv_obtained, rv, opt[1], opt[2], t, s)]
    /\ UNCHANGED objs
    /\ UNCHANGED <<IoupVars, InfoOpVars, LaterVars>>

\* transition.backward_realization(real_obtained, rv, rv_forwarded=...,
\*                                 gain=..., t=..., _diffusion=...)
BackwardRealization ==
    /\ Idle
    /\ \E real \in ObtainedMeans(OutputDim), rv \in Normals(InputDim),
          t \in Times, s \in Diffusions :
         \E opt \in BackwardOptions(rv, t, s) :
           /\ call' = [NoCall EXCEPT !.op = "backward_realization", !.real = real,
                                     !.rv = rv, !.rv_forwarded = opt[1],
                                     !.gain = opt[2], !.t = t, !._diffusion = s]
           /\ ret' = [b \in BackwardImplementations |->
                          backward_realization(objs[b], real, rv, opt[1], opt[2], t, s)]
    /\ UNCHANGED objs
    /\ UNCHANGED <<IoupVars, InfoOpVars, LaterVars>>

\* the caller takes the result; the transition is ready for the next call
Done ==
    /\ ~Idle
    /\ call' = NoCall
    /\ ret' = [b \in BackwardImplementations |-> NoResult]
    /\ UNCHANGED objs
    /\ UNCHANGED <<IoupVars, InfoOpVars, LaterVars>>

Next ==
    \/ ForwardRv
    \/ ForwardRealization
    \/ BackwardRv
    \/ BackwardRealization
    \/ Done

Spec == Init /\ [][Next]_vars

-----------------------------------------------------------------------------
(* Calls of forward_rv and backward_rv on one IOUP transition.  A call is    *)
(* three steps: it preconditions its arguments and the system matrices of   *)
(* the transition, it discretises and propagates, it undoes the             *)
(* preconditioning and returns.  Callers that share the transition take     *)
(* their steps in any order.                                                *)

IoupInit ==
    /\ transition \in IoupTransitions
    /\ frames = [c \in Callers |-> NoFrame]
    /\ ncalls = 0
    /\ raised = FALSE

CanCall(c) == frames[c].pc \in {"idle", "returned"} /\ ncalls < MaxCalls

Returned(frame, result) == [frame EXCEPT !.pc = "returned", !.result = result]

\* forward_rv, lines 168-181: the check of dt, the preconditioning of rv and
\* of the system matrices
ForwardRvBegin(c) ==
    /\ CanCall(c)
    /\ \E a \in IoupForwardArgs(Dimension(transition)), dt \in StepOptions :
         LET rv == a[1]
             cg == a[2]
             s == a[3]
             args == [IoupNoArgs EXCEPT !.rv = rv, !.dt = dt, !.compute_gain = cg,
                                        !._diffusion = s]
             frame == [NoFrame EXCEPT !.op = "forward_rv", !.args = args]
         IN  IF IsNone(dt)
             THEN /\ frames' = [frames EXCEPT ![c] = Returned(frame, Raise("ValueError"))]
                  /\ raised' = TRUE
                  /\ UNCHANGED transition
             ELSE /\ frames' =
                        [frames EXCEPT ![c] =
                            [frame EXCEPT
                                !.pc = "preconditioned",
                                !.local = [args EXCEPT !.rv =
                                    apply_precon(precon_inverse(transition, Val(dt)), rv)]]]
                  /\ transition' = precondition_system(transition, Val(dt))
                  /\ UNCHANGED raised
    /\ ncalls' = ncalls + 1
    /\ UNCHANGED <<DiscreteVars, InfoOpVars, LaterVars>>

\* forward_rv, lines 184-187: discretise and propagate
ForwardRvPropagate(c) ==
    /\ frames[c].pc = "preconditioned" /\ frames[c].op = "forward_rv"
    /\ LET frame == frames[c]
           discretised_model == discretise(transition, Val(frame.args.dt))
           inner == discretised_forward_rv(discretised_model, frame.local.rv,
                                           frame.local.t, frame.local.compute_gain,
                                           frame.local._diffusion)
       IN  IF inner.status # "ok"
           THEN /\ frames' = [frames EXCEPT ![c] =
                                 Returned([frame EXCEPT !.model = discretised_model],
                                          Raise(inner.status))]
                /\ raised' = TRUE
           ELSE /\ frames' = [frames EXCEPT ![c] =
                                 [frame EXCEPT !.pc = "propagated",
                                               !.model = discretised_model,
                                               !.inner = inner]]
                /\ UNCHANGED raised
    /\ UNCHANGED <<transition, ncalls>>
    /\ UNCHANGED <<DiscreteVars, InfoOpVars, LaterVars>>

\* forward_rv, lines 190-201: undo the preconditioning and return
ForwardRvReturn(c) ==
    /\ frames[c].pc = "propagated" /\ frames[c].op = "forward_rv"
    /\ LET frame == frames[c]
           dt == Val(frame.args.dt)
       IN  /\ frames' = [frames EXCEPT ![c] =
                            Returned(frame, forward_rv_undo(transition, dt, frame.inner))]
           /\ transition' = restore_system(transition, dt)
    /\ UNCHANGED <<ncalls, raised>>
    /\ UNCHANGED <<DiscreteVars, InfoOpVars, LaterVars>>

\* backward_rv, lines 214-238: the check of dt, the preconditioning of
\* rv_obtained, rv, rv_forwarded, gain and of the system matrices
BackwardRvBegin(c) ==
    /\ CanCall(c)
    /\ \E a \in IoupBackwardArgs(Dimension(transition)), dt \in StepOptions :
         LET rv_obtained == IoupObtainedNormal(Dimension(transition))
             rv == a[1]
             opt == a[2]
             s == a[3]
             args == [IoupNoArgs EXCEPT !.rv_obtained = rv_obtained, !.rv = rv,
                                        !.rv_forwarded = opt[1], !.gain = opt[2],
                                        !.dt = dt, !._diffusion = s]
             frame == [NoFrame EXCEPT !.op = "backward_rv", !.args = args]
         IN  IF IsNone(dt)
             THEN /\ frames' = [frames EXCEPT ![c] = Returned(frame, Raise("ValueError"))]
                  /\ raised' = TRUE
                  /\ UNCHANGED transition
             ELSE LET Pinv == precon_inverse(transition, Val(dt))
                  IN  /\ frames' =
                            [frames EXCEPT ![c] =
                                [frame EXCEPT
                                    !.pc = "preconditioned",
                                    !.local =
                                        [args EXCEPT
                                            !.rv_obtained = apply_precon(Pinv, rv_obtained),
                                            !.rv = apply_precon(Pinv, rv),
                                            !.rv_forwarded =
                                                IF IsNone(opt[1]) THEN None
                                                ELSE Some(apply_precon(Pinv, Val(opt[1]))),
                                            !.gain =
                                                IF IsNone(opt[2]) THEN None
                                                ELSE Some(MatMul(MatMul(Pinv, Val(opt[2])),
                                                                 Transpose(Pinv)))]]]
                      /\ transition' = precondition_system(transition, Val(dt))
                      /\ UNCHANGED raised
    /\ ncalls' = ncalls + 1
    /\ UNCHANGED <<DiscreteVars, InfoOpVars, LaterVars>>

\* backward_rv, lines 241-249: discretise and propagate
BackwardRvPropagate(c) ==
    /\ frames[c].pc = "preconditioned" /\ frames[c].op = "backward_rv"
    /\ LET frame == frames[c]
           discretised_model == discretise(transition, Val(frame.args.dt))
           inner == discretised_backward_rv(discretised_model, frame.local.rv_obtained,
                                            frame.local.rv, frame.local.rv_forwarded,
                                            frame.local.gain, frame.local.t,
                                            frame.local._diffusion)
       IN  IF inner.status # "ok"
           THEN /\ frames' = [frames EXCEPT ![c] =
                                 Returned([frame EXCEPT !.model = discretised_model],
                                          Raise(inner.status))]
                /\ raised' = TRUE
           ELSE /\ frames' = [frames EXCEPT ![c] =
                                 [frame EXCEPT !.pc = "propagated",
                                               !.model = discretised_model,
                                               !.inner = inner]]
                /\ UNCHANGED raised
    /\ UNCHANGED <<transition, ncalls>>
    /\ UNCHANGED <<DiscreteVars, InfoOpVars, LaterVars>>

\* backward_rv, lines 252-258: undo the preconditioning and return
BackwardRvReturn(c) ==
    /\ frames[c].pc = "propagated" /\ frames[c].op = "backward_rv"
    /\ LET frame == frames[c]
           dt == Val(frame.args.dt)
       IN  /\ frames' = [frames EXCEPT ![c] =
                            Returned(frame, backward_rv_undo(transition, dt, frame.inner))]
           /\ transition' = restore_system(transition, dt)
    /\ UNCHANGED <<ncalls, raised>>
    /\ UNCHANGED <<DiscreteVars, InfoOpVars, LaterVars>>

\* one caller: each call runs from its first step to its return before the
\* next begins
SequentialInit == IoupInit /\ DiscreteUnused /\ InfoOpUnused /\ LaterUnused

SequentialNext ==
    \/ ForwardRvBegin(1)
    \/ ForwardRvPropagate(1)
    \/ ForwardRvReturn(1)
    \/ BackwardRvBegin(1)
    \/ BackwardRvPropagate(1)
    \/ BackwardRvReturn(1)

SpecSequential == SequentialInit /\ [][SequentialNext]_vars

\* callers that share the transition and hold no lock
ParallelInit == IoupInit /\ DiscreteUnused /\ InfoOpUnused /\ LaterUnused

ParallelNext ==
    \E c \in Callers :
        \/ ForwardRvBegin(c)
        \/ ForwardRvPropagate(c)
        \/ ForwardRvReturn(c)
        \/ BackwardRvBegin(c)
        \/ BackwardRvPropagate(c)
        \/ BackwardRvReturn(c)

SpecParallel == ParallelInit /\ [][ParallelNext]_vars

-----------------------------------------------------------------------------
(* forward_rv with compute_gain=True followed by backward_rv with the        *)
(* rv_forwarded and the gain that forward_rv returned.                      *)
(*                                                                         *)
(* What forward_rv returns is the image of what the discretised model       *)
(* computed under the maps that undo the preconditioning; backward_rv maps  *)
(* it again.  The composed maps are computed.                               *)

\* self.precon.inverse(dt) @ gain @ self.precon.inverse(dt).T on a gain that
\* is the image left @ x @ right of x
precondition_gain(self, dt, gain) ==
    Mapped(MatMul(precon_inverse(self, dt), gain.left), gain.x,
           MatMul(gain.right, Transpose(precon_inverse(self, dt))))

\* apply_precon(self.precon.inverse(dt), rv_forwarded) on a belief that is
\* the image of rv under precon
precondition_rv_forwarded(self, dt, rv_forwarded) ==
    MappedBelief(MatMul(precon_inverse(self, dt), rv_forwarded.precon), rv_forwarded.rv)

CanCallWithCached(c) ==
    /\ frames[c].pc = "returned"
    /\ frames[c].op = "forward_rv"
    /\ frames[c].result.status = "ok"
    /\ frames[c].args.compute_gain
    /\ ncalls < MaxCalls

\* backward_rv(rv_obtained, rv, rv_forwarded=rv_forwarded, gain=info["gain"],
\* t=t, dt=dt) after rv_forwarded, info = forward_rv(rv, t, dt,
\* compute_gain=True): lines 214-238
BackwardRvBeginCached(c) ==
    /\ CanCallWithCached(c)
    /\ LET forward == frames[c]
           dt == Val(forward.args.dt)
           Pinv == precon_inverse(transition, dt)
           rv_obtained == IoupObtainedNormal(Dimension(transition))
           args == [IoupNoArgs EXCEPT !.rv_obtained = rv_obtained,
                                      !.rv = forward.args.rv,
                                      !.rv_forwarded = Some(forward.result.rv),
                                      !.gain = Some(forward.result.info.gain),
                                      !.dt = forward.args.dt,
                                      !._diffusion = forward.args._diffusion]
           frame == [NoFrame EXCEPT !.op = "backward_rv", !.args = args]
       IN  /\ frames' =
                 [frames EXCEPT ![c] =
                     [frame EXCEPT
                         !.pc = "preconditioned",
                         !.local =
                             [args EXCEPT
                                 !.rv_obtained = apply_precon(Pinv, rv_obtained),
                                 !.rv = apply_precon(Pinv, forward.args.rv),
                                 !.rv_forwarded =
                                     Some(precondition_rv_forwarded(transition, dt,
                                                                    forward.result.rv)),
                                 !.gain =
                                     Some(precondition_gain(transition, dt,
                                                            forward.result.info.gain))]]]
           /\ transition' = precondition_system(transition, dt)
    /\ ncalls' = ncalls + 1
    /\ UNCHANGED raised
    /\ UNCHANGED <<DiscreteVars, InfoOpVars, LaterVars>>

RoundTripNext ==
    \/ ForwardRvBegin(1)
    \/ ForwardRvPropagate(1)
    \/ ForwardRvReturn(1)
    \/ BackwardRvBeginCached(1)
    \/ BackwardRvPropagate(1)
    \/ BackwardRvReturn(1)

SpecRoundTrip == SequentialInit /\ [][RoundTripNext]_vars
-----------------------------------------------------------------------------
(* Operations on one information operator.                                  *)

InfoOpInit ==
    /\ info_op \in InformationOperators
    /\ outcome = NoOutcome
    /\ DiscreteUnused
    /\ IoupUnused
    /\ LaterUnused

Operated(op, arg, out) ==
    /\ info_op' = out.self
    /\ outcome' = [op |-> op, arg |-> arg, status |-> out.status, value |-> out.value]
    /\ UNCHANGED <<DiscreteVars, IoupVars, LaterVars>>

\* the state at which the residual and its Jacobian are evaluated
EvaluationPoint == Arange(info_op.input_dim)

\* info_op.set_ivp(ivp)
SetIvp ==
    /\ info_op.cls = "ODEResidualOperator"
    /\ \E ivp \in Odes : Operated("set_ivp", Some(ivp), set_ivp(info_op, ivp))

\* info_op.incorporate_ode(ode)
IncorporateOde ==
    /\ info_op.cls = "ODEResidual"
    /\ \E ode \in Odes : Operated("incorporate_ode", Some(ode), incorporate_ode(info_op, ode))

\* info_op(t, x)
Call ==
    /\ info_op.cls \in {"ODEResidualOperator", "ODEResidual"}
    /\ \E t \in Times :
        Operated("__call__", Some(t), __call__(info_op, t, EvaluationPoint))

\* info_op.jacobian(t, x)
Jacobian ==
    /\ info_op.cls \in {"ODEResidualOperator", "ODEResidual"}
    /\ \E t \in Times :
        Operated("jacobian", Some(t), jacobian(info_op, t, EvaluationPoint))

\* info_op.as_transition()
AsTransition ==
    /\ info_op.cls = "ODEResidualOperator"
    /\ Operated("as_transition", None, as_transition(info_op))

InfoOpNext ==
    \/ SetIvp
    \/ IncorporateOde
    \/ Call
    \/ Jacobian
    \/ AsTransition

SpecInfoOp == InfoOpInit /\ [][InfoOpNext]_vars

-----------------------------------------------------------------------------
(* Operations on one Normal: construction, then accesses to the Cholesky    *)
(* factor of its covariance.                                                *)

\* the variables of the other state machines
OutsideNormal == <<DiscreteVars, IoupVars, InfoOpVars, ConfigVars, SolverVars, IntegratorVars, LtiVars, KalmanVars, StepVars, StopperVars, UpdateVars, MomentVars>>

NormalInit ==
    /\ NormalUnused
    /\ DiscreteUnused
    /\ IoupUnused
    /\ InfoOpUnused
    /\ SolverUnused
    /\ ConfigUnused
    /\ IntegratorUnused
    /\ LtiUnused
    /\ KalmanUnused
    /\ StepsUnused
    /\ StopperUnused
    /\ UpdateUnused
    /\ MomentsUnused

NormalOutcome(op, status, value) ==
    [normal_outcome EXCEPT !.op = op, !.status = status, !.value = value]

\* Normal(mean, cov)
NormalConstruct ==
    /\ ~normal_rv.exists
    /\ \E mean \in NormalMeans, cov \in NormalCovs :
         /\ normal_rv' = Normal__init__(mean, cov, None).self
         /\ normal_outcome' = [op |-> "Normal", mean |-> mean, cov |-> cov,
                               status |-> Normal__init__(mean, cov, None).status,
                               value |-> None]
    /\ UNCHANGED <<cholesky_calls, naccesses>>
    /\ UNCHANGED OutsideNormal

\* normal._cov_cholesky
CovCholesky ==
    /\ normal_rv.exists
    /\ naccesses < MaxAccesses
    /\ naccesses' = naccesses + 1
    /\ cholesky_calls' = cholesky_calls + _cov_cholesky(normal_rv).computed
    /\ normal_outcome' = NormalOutcome("_cov_cholesky", _cov_cholesky(normal_rv).status,
                                       _cov_cholesky(normal_rv).value)
    /\ UNCHANGED normal_rv
    /\ UNCHANGED OutsideNormal

\* normal._cov_matrix_cholesky
CovMatrixCholesky ==
    /\ normal_rv.exists
    /\ naccesses < MaxAccesses
    /\ naccesses' = naccesses + 1
    /\ cholesky_calls' = cholesky_calls + _cov_matrix_cholesky(normal_rv).computed
    /\ normal_outcome' = NormalOutcome("_cov_matrix_cholesky",
                                       _cov_matrix_cholesky(normal_rv).status,
                                       _cov_matrix_cholesky(normal_rv).value)
    /\ UNCHANGED normal_rv
    /\ UNCHANGED OutsideNormal

\* normal.compute_cov_sqrtm()
ComputeCovSqrtm ==
    /\ normal_rv.exists
    /\ naccesses < MaxAccesses
    /\ naccesses' = naccesses + 1
    /\ cholesky_calls' = cholesky_calls + compute_cov_sqrtm(normal_rv).computed
    /\ normal_rv' = compute_cov_sqrtm(normal_rv).self
    /\ normal_outcome' = NormalOutcome("compute_cov_sqrtm",
                                       compute_cov_sqrtm(normal_rv).status,
                                       compute_cov_sqrtm(normal_rv).value)
    /\ UNCHANGED OutsideNormal

NormalNext ==
    \/ NormalConstruct
    \/ CovCholesky
    \/ CovMatrixCholesky
    \/ ComputeCovSqrtm

SpecNormal == NormalInit /\ [][NormalNext]_vars
-----------------------------------------------------------------------------
(* Operations on the configuration object: register, read, assign, and the  *)
(* with blocks, which are left innermost first.                             *)

OutsideConfig == <<DiscreteVars, IoupVars, InfoOpVars, NormalVars, SolverVars, IntegratorVars, LtiVars, KalmanVars, StepVars, StopperVars, UpdateVars, MomentVars>>

ConfigInit ==
    /\ ConfigUnused
    /\ DiscreteUnused
    /\ IoupUnused
    /\ InfoOpUnused
    /\ SolverUnused
    /\ NormalUnused
    /\ IntegratorUnused
    /\ LtiUnused
    /\ KalmanUnused
    /\ StepsUnused
    /\ StopperUnused
    /\ UpdateUnused
    /\ MomentsUnused

\* config.register(key, default_value, "...")
Register ==
    /\ \E key \in ConfigKeys, default_value \in ConfigValues :
         /\ config_dict' = register(config_dict, key, default_value).dict
         /\ config_outcome' = [op |-> "register", key |-> key, value |-> default_value,
                               kwargs |-> <<>>,
                               status |-> register(config_dict, key, default_value).status,
                               result |-> ""]
    /\ UNCHANGED config_blocks
    /\ UNCHANGED OutsideConfig

\* config.key
ReadEntry ==
    /\ \E key \in ConfigKeys :
         config_outcome' = [op |-> "getattr", key |-> key, value |-> "", kwargs |-> <<>>,
                            status |-> getattr(config_dict, key).status,
                            result |-> getattr(config_dict, key).value]
    /\ UNCHANGED <<config_dict, config_blocks>>
    /\ UNCHANGED OutsideConfig

\* config.key = value
AssignEntry ==
    /\ \E key \in ConfigKeys, value \in ConfigValues :
         /\ config_dict' = __setattr__(config_dict, key, value).dict
         /\ config_outcome' = [op |-> "setattr", key |-> key, value |-> value,
                               kwargs |-> <<>>,
                               status |-> __setattr__(config_dict, key, value).status,
                               result |-> ""]
    /\ UNCHANGED config_blocks
    /\ UNCHANGED OutsideConfig

\* with config(**kwargs): up to the first statement of the block
EnterBlock ==
    /\ Len(config_blocks) < MaxNesting
    /\ \E kwargs \in ConfigKwargs :
         /\ config_dict' = __call__enter(config_dict, EmptyEntries, kwargs).dict
         /\ config_blocks' =
              IF __call__enter(config_dict, EmptyEntries, kwargs).status = "ok"
              THEN Append(config_blocks,
                          [old_entries |->
                               __call__enter(config_dict, EmptyEntries, kwargs).old_entries,
                           kwargs |-> kwargs,
                           at_entry |-> config_dict])
              ELSE config_blocks
         /\ config_outcome' = [op |-> "enter", key |-> "", value |-> "", kwargs |-> kwargs,
                               status |->
                                   __call__enter(config_dict, EmptyEntries, kwargs).status,
                               result |-> ""]
    /\ UNCHANGED OutsideConfig

\* the innermost block is left, by its last statement or by an exception
LeaveBlock ==
    /\ Len(config_blocks) > 0
    /\ \E how \in {"normally", "exception"} :
         config_outcome' = [op |-> "exit", key |-> "", value |-> how,
                            kwargs |-> config_blocks[Len(config_blocks)].kwargs,
                            status |-> "ok", result |-> ""]
    /\ config_dict' = __call__exit(config_dict,
                                   config_blocks[Len(config_blocks)].old_entries)
    /\ config_blocks' = SubSeq(config_blocks, 1, Len(config_blocks) - 1)
    /\ UNCHANGED OutsideConfig

ConfigNext ==
    \/ Register
    \/ ReadEntry
    \/ AssignEntry
    \/ EnterBlock
    \/ LeaveBlock

SpecConfig == ConfigInit /\ [][ConfigNext]_vars
-----------------------------------------------------------------------------
(* solution_generator: the states it yields, one loop iteration per step.   *)

OutsideSolver == <<DiscreteVars, IoupVars, InfoOpVars, NormalVars, ConfigVars, IntegratorVars, LtiVars, KalmanVars, StepVars, StopperVars, UpdateVars, MomentVars>>

SolverInit ==
    /\ \E stop_at \in StopAtLocations, firststep \in StepSizes :
         solver = [pc |-> "start", t |-> 0, tmax |-> MaxTmax, dt |-> firststep,
                   stop_at |-> stop_at, time_stopper |-> None, num_steps |-> 0]
    /\ yielded = <<>>
    /\ adjusted = NoAdjust
    /\ DiscreteUnused
    /\ IoupUnused
    /\ InfoOpUnused
    /\ NormalUnused
    /\ ConfigUnused
    /\ IntegratorUnused
    /\ LtiUnused
    /\ KalmanUnused
    /\ StepsUnused
    /\ StopperUnused
    /\ UpdateUnused
    /\ MomentsUnused

\* lines 68-75: the event inputs are processed, the initial state is yielded,
\* dt is the first step of the step rule
Initialize ==
    /\ solver.pc = "start"
    /\ solver' = [solver EXCEPT !.pc = "loop",
                                !.time_stopper = _process_event_inputs(solver.stop_at)]
    /\ yielded' = Append(yielded, solver.t)
    /\ UNCHANGED adjusted
    /\ UNCHANGED OutsideSolver

\* lines 78-89: one iteration.  The step rule rejects attempts until one with
\* a step no larger than the adjusted dt is accepted (a rejection suggests a
\* smaller step), and suggests any step size for the next iteration.
SolverStep ==
    /\ solver.pc = "loop"
    /\ solver.t < solver.tmax
    /\ \E accepted_dt \in StepSizes, suggested_dt \in StepSizes :
         /\ accepted_dt <= adjust_dt_to_time_stops(solver.time_stopper, solver.t, solver.dt).dt
         /\ solver' =
              [solver EXCEPT
                 !.t = perform_full_step(solver.t, solver.tmax, accepted_dt, suggested_dt).t,
                 !.dt = perform_full_step(solver.t, solver.tmax, accepted_dt, suggested_dt).dt,
                 !.time_stopper =
                     adjust_dt_to_time_stops(solver.time_stopper, solver.t, solver.dt).stopper,
                 !.num_steps = @ + 1]
         /\ yielded' =
              Append(yielded,
                     perform_full_step(solver.t, solver.tmax, accepted_dt, suggested_dt).t)
    /\ adjusted' =
         [t |-> solver.t, dt |-> solver.dt,
          result |-> adjust_dt_to_time_stops(solver.time_stopper, solver.t, solver.dt).dt]
    /\ UNCHANGED OutsideSolver

\* the loop condition fails: the generator is exhausted
SolverFinish ==
    /\ solver.pc = "loop"
    /\ solver.t >= solver.tmax
    /\ solver' = [solver EXCEPT !.pc = "done"]
    /\ UNCHANGED <<yielded, adjusted>>
    /\ UNCHANGED OutsideSolver

SolverNext ==
    \/ Initialize
    \/ SolverStep
    \/ SolverFinish

SpecSolver == SolverInit /\ [][SolverNext]_vars
-----------------------------------------------------------------------------
(* DiscreteLTIGaussian: construction from three arrays, then a forward      *)
(* transition with the object constructed.                                  *)

MaxLtiDim == 2

\* arrays of 0, 1 and 2 dimensions with each extent up to MaxLtiDim; the
\* matrices are multiples of (a corner of) the identity
LtiMatrices ==
    {MatrixArray(Arr([i \in 1..n |-> Arr([j \in 1..m |-> IF i = j THEN c ELSE Q0])])) :
        <<n, m, c>> \in (1..MaxLtiDim) \X (1..MaxLtiDim) \X {Q1, FromInt(2)}}

LtiVectors == {VectorArray(Arange(n)) : n \in 1..MaxLtiDim}

LtiArrays == {ScalarArray(Q1)} \cup LtiVectors \cup LtiMatrices

OutsideLti == <<DiscreteVars, IoupVars, InfoOpVars, NormalVars, ConfigVars, SolverVars, IntegratorVars, KalmanVars, StepVars, StopperVars, UpdateVars, MomentVars>>

LtiInit ==
    /\ LtiUnused
    /\ DiscreteUnused
    /\ IoupUnused
    /\ InfoOpUnused
    /\ NormalUnused
    /\ ConfigUnused
    /\ SolverUnused
    /\ IntegratorUnused
    /\ KalmanUnused
    /\ StepsUnused
    /\ StopperUnused
    /\ UpdateUnused
    /\ MomentsUnused

\* DiscreteLTIGaussian(state_trans_mat, shift_vec, proc_noise_cov_mat)
LtiConstruct ==
    /\ lti_outcome.op = "none"
    /\ \E state_trans_mat \in LtiArrays, shift_vec \in LtiArrays,
          proc_noise_cov_mat \in LtiArrays :
         /\ lti' = DiscreteLTIGaussian(state_trans_mat, shift_vec, proc_noise_cov_mat,
                                       "classic", "classic").self
         /\ lti_outcome' =
              [op |-> "__init__", state_trans_mat |-> state_trans_mat,
               shift_vec |-> shift_vec, proc_noise_cov_mat |-> proc_noise_cov_mat,
               status |-> DiscreteLTIGaussian(state_trans_mat, shift_vec, proc_noise_cov_mat,
                                              "classic", "classic").status]
    /\ UNCHANGED OutsideLti

\* lti.forward_rv(rv, t) with a belief of the transition's input dimension
LtiForward ==
    /\ lti # NoLti
    /\ \E t \in Times :
         lti_outcome' =
            [op |-> "forward_rv", t |-> t,
             status |-> forward_rv(lti, IoupNormal(lti.input_dim), t, FALSE, Q1).status,
             value |-> forward_rv(lti, IoupNormal(lti.input_dim), t, FALSE, Q1).rv]
    /\ UNCHANGED lti
    /\ UNCHANGED OutsideLti

LtiNext ==
    \/ LtiConstruct
    \/ LtiForward

SpecLti == LtiInit /\ [][LtiNext]_vars
-----------------------------------------------------------------------------
(* Integrators: an integrator is constructed, then a projection, its system  *)
(* matrices, a discretisation or a transition is asked of it.  The          *)
(* operations do not change the integrator, so one operation per integrator *)
(* covers every sequence of them.                                           *)

OutsideIntegrator == <<DiscreteVars, IoupVars, InfoOpVars, NormalVars, ConfigVars, SolverVars, LtiVars, KalmanVars, StepVars, StopperVars, UpdateVars, MomentVars>>

IntegratorInit ==
    /\ integ \in Integrators
    /\ integ_outcome = NoIntegratorOutcome
    /\ DiscreteUnused
    /\ IoupUnused
    /\ InfoOpUnused
    /\ NormalUnused
    /\ ConfigUnused
    /\ SolverUnused
    /\ LtiUnused
    /\ KalmanUnused
    /\ StepsUnused
    /\ StopperUnused
    /\ UpdateUnused
    /\ MomentsUnused

\* integrator.proj2coord(coord)
Proj2coord ==
    /\ integ_outcome.op = "none"
    /\ integ.cls \in {"Integrator", "IBM"}
    /\ \E coord \in 0..(MaxPriorOrdint + 1) :
         integ_outcome' =
            IF proj2coord_raises(integ.obj, coord)
            THEN [op |-> "proj2coord", status |-> "ValueError", coord |-> coord]
            ELSE [op |-> "proj2coord", status |-> "ok", coord |-> coord,
                  value |-> proj2coord(integ.obj, coord)]
    /\ UNCHANGED integ
    /\ UNCHANGED OutsideIntegrator

\* the drift matrix, force vector and dispersion matrix are read
SystemMatrices ==
    /\ integ_outcome.op = "none"
    /\ integ.cls \in {"IBM", "IOUP"}
    /\ integ_outcome' =
         IF integ.cls = "IBM"
         THEN [op |-> "matrices", status |-> "ok", drift |-> integ.obj.driftmat,
               force |-> integ.obj.forcevec, dispersion |-> integ.obj.dispmat]
         ELSE [op |-> "matrices", status |-> "ok", drift |-> integ.obj.drift_matrix,
               force |-> integ.obj.force_vector,
               dispersion |-> integ.obj.dispersion_matrix]
    /\ UNCHANGED integ
    /\ UNCHANGED OutsideIntegrator

\* ibm.discretise(step)
Discretise ==
    /\ integ_outcome.op = "none"
    /\ integ.cls = "IBM"
    /\ \E step \in IbmSteps :
         integ_outcome' = [op |-> "discretise", status |-> "ok", step |-> step,
                           value |-> IBM_discretise(integ.obj, step)]
    /\ UNCHANGED integ
    /\ UNCHANGED OutsideIntegrator

TransitionRvOutcome(step, _diffusion, rv, result) ==
    [op |-> "transition_rv", step |-> step, _diffusion |-> _diffusion, rv |-> rv,
     status |-> result.status, value |-> result.rv]

\* ibm.transition_rv(rv, start, stop=start + step, _diffusion)
TransitionRv ==
    /\ integ_outcome.op = "none"
    /\ integ.cls = "IBM"
    /\ \E step \in IbmSteps, _diffusion \in {Q1, FromInt(3)}, start \in Times,
          rv \in IbmBeliefs(integ.obj.spatialdim * (integ.obj.ordint + 1)) :
         integ_outcome' =
            TransitionRvOutcome(step, _diffusion, rv,
                IBM_transition_rv(integ.obj, rv, start, RAdd(FromInt(start), step),
                                  _diffusion))
    /\ UNCHANGED integ
    /\ UNCHANGED OutsideIntegrator

IntegratorNext ==
    \/ Proj2coord
    \/ SystemMatrices
    \/ Discretise
    \/ TransitionRv

SpecIntegrator == IntegratorInit /\ [][IntegratorNext]_vars
-----------------------------------------------------------------------------
(* filtsmooth: the forward pass over the locations, then the backward pass. *)

OutsideKalman == <<DiscreteVars, IoupVars, InfoOpVars, NormalVars, ConfigVars, SolverVars, IntegratorVars, LtiVars, StepVars, StopperVars, UpdateVars, MomentVars>>

KalmanInit ==
    /\ \E times \in KalmanLocations :
         \E data \in KalmanObservations(Len(times)) :
            kalman = [pc |-> "filter", times |-> times, data |-> data,
                      filtered |-> <<>>, cached |-> <<>>, smoothed |-> <<>>, next |-> 0]
    /\ kalman_log = <<>>
    /\ posterior = NoPosterior
    /\ DiscreteUnused
    /\ IoupUnused
    /\ InfoOpUnused
    /\ NormalUnused
    /\ ConfigUnused
    /\ SolverUnused
    /\ IntegratorUnused
    /\ LtiUnused
    /\ StepsUnused
    /\ StopperUnused
    /\ UpdateUnused
    /\ MomentsUnused

\* the first forward step: the initial belief is updated with the first
\* observation
FilterFirst ==
    /\ kalman.pc = "filter"
    /\ kalman.filtered = <<>>
    /\ kalman' = [kalman EXCEPT
                    !.filtered = <<kalman_update(KalmanInitrv, kalman.data[1],
                                                 kalman.times[1])>>]
    /\ kalman_log' = Append(kalman_log, [step |-> "forward", index |-> 1,
                                         filtered_before |-> 0])
    /\ UNCHANGED posterior
    /\ UNCHANGED OutsideKalman

FilterStepResult(k, fwd) ==
    [kalman EXCEPT
        !.cached = Append(@, ForwardQuantities(fwd)),
        !.filtered = Append(@, kalman_update(fwd.rv, kalman.data[k], kalman.times[k]))]

\* forward step k > 1: predict from the filtered belief of step k - 1, cache
\* the forward quantities, update with the observation of step k
FilterStep ==
    /\ kalman.pc = "filter"
    /\ kalman.filtered # <<>>
    /\ Len(kalman.filtered) < Len(kalman.times)
    /\ kalman' = FilterStepResult(Len(kalman.filtered) + 1,
                                  kalman_predict(kalman.filtered[Len(kalman.filtered)],
                                                 kalman.times[Len(kalman.filtered)]))
    /\ kalman_log' = Append(kalman_log,
                            [step |-> "forward", index |-> Len(kalman.filtered) + 1,
                             filtered_before |-> Len(kalman.filtered),
                             rv |-> kalman.filtered[Len(kalman.filtered)]])
    /\ UNCHANGED posterior
    /\ UNCHANGED OutsideKalman

\* the forward pass is complete: the backward pass starts from the last
\* filtered belief
StartSmoothing ==
    /\ kalman.pc = "filter"
    /\ Len(kalman.filtered) = Len(kalman.times)
    /\ kalman' = [kalman EXCEPT !.pc = "smooth", !.smoothed = kalman.filtered, !.next = 1]
    /\ UNCHANGED <<kalman_log, posterior>>
    /\ UNCHANGED OutsideKalman

SmoothStepAt(k) ==
    /\ kalman' = [kalman EXCEPT
                    !.smoothed[k] = kalman_smooth_step(kalman.smoothed, kalman.filtered,
                                                       kalman.cached, kalman.times, k),
                    !.next = @ + 1]
    /\ kalman_log' = Append(kalman_log,
                            [step |-> "backward", index |-> k,
                             rv_obtained |-> kalman.smoothed[k + 1],
                             rv |-> kalman.filtered[k],
                             rv_forwarded |-> kalman.cached[k].rv_forwarded,
                             gain |-> kalman.cached[k].gain])

\* one step of the backward pass
SmoothStep ==
    /\ kalman.pc = "smooth"
    /\ kalman.next <= Len(kalman.times) - 1
    /\ SmoothStepAt(smoothing_order(Len(kalman.times))[kalman.next])
    /\ UNCHANGED posterior
    /\ UNCHANGED OutsideKalman

\* the backward pass is complete: the posterior is returned
ReturnPosterior ==
    /\ kalman.pc = "smooth"
    /\ kalman.next > Len(kalman.times) - 1
    /\ kalman' = [kalman EXCEPT !.pc = "done"]
    /\ posterior' = [locations |-> kalman.times, states |-> kalman.smoothed]
    /\ UNCHANGED kalman_log
    /\ UNCHANGED OutsideKalman

KalmanNext ==
    \/ FilterFirst
    \/ FilterStep
    \/ StartSmoothing
    \/ SmoothStep
    \/ ReturnPosterior

SpecKalman == KalmanInit /\ [][KalmanNext]_vars
-----------------------------------------------------------------------------
(* solve with a PerturbedStepSolver: the generator's loop, one action per   *)
(* attempt of a step.                                                       *)

OutsideSteps == <<DiscreteVars, IoupVars, InfoOpVars, NormalVars, ConfigVars, SolverVars, IntegratorVars, LtiVars, KalmanVars, StopperVars, UpdateVars, MomentVars>>

StepsInit ==
    /\ \E tmax \in EndTimes, firststep \in RuleSteps, callbacks \in CallbackOptions,
          seed \in Seeds :
         run = [pc |-> "start", state |-> SolverState(0, <<>>, 0), tmax |-> tmax,
                firststep |-> firststep, dt |-> 0, callbacks |-> callbacks,
                num_steps |-> 0, rejections |-> 0, solves |-> 1,
                solver |-> [scales |-> None, rng |-> [seed |-> seed, draws |-> 0]]]
    /\ attempts = <<>>
    /\ outputs = <<>>
    /\ DiscreteUnused
    /\ IoupUnused
    /\ InfoOpUnused
    /\ NormalUnused
    /\ ConfigUnused
    /\ SolverUnused
    /\ IntegratorUnused
    /\ LtiUnused
    /\ KalmanUnused
    /\ StopperUnused
    /\ UpdateUnused
    /\ MomentsUnused

\* lines 72-75: the solver is initialised, the initial state is yielded, dt
\* is the first step of the step rule
StepsInitialize ==
    /\ run.pc = "start"
    /\ run' = [run EXCEPT !.pc = "loop", !.dt = run.firststep,
                          !.solver = PerturbedStepSolver_initialise(@)]
    /\ outputs' = Append(outputs, run.state)
    /\ UNCHANGED attempts
    /\ UNCHANGED OutsideSteps

\* what an attempt leaves behind
AttemptRecord(state, dt, proposed_state, accepted, suggested_dt) ==
    [state |-> state, dt |-> dt, proposed_state |-> proposed_state,
     accepted |-> accepted, suggested_dt |-> suggested_dt, step |-> run.num_steps + 1]

\* lines 116-132: an attempt the step rule rejects; the loop goes on
RejectedAttempt ==
    /\ run.pc = "loop"
    /\ run.state.t < run.tmax
    /\ run.rejections < MaxRejections
    /\ \E suggested_dt \in RuleSteps :
         /\ run' = [run EXCEPT
                      !.dt = next_dt(FALSE, suggested_dt, run.tmax, run.state,
                                     attempt_step(run.state, run.dt, Len(attempts) + 1)),
                      !.rejections = @ + 1,
                      !.solver = PerturbedStepSolver_step(@, run.state.t,
                                                          run.state.t + run.dt)]
         /\ attempts' = Append(attempts,
                               AttemptRecord(run.state, run.dt,
                                             attempt_step(run.state, run.dt,
                                                          Len(attempts) + 1),
                                             FALSE, suggested_dt))
    /\ UNCHANGED outputs
    /\ UNCHANGED OutsideSteps

\* the state and dt returned by perform_full_step after the accepted attempt,
\* then lines 84-89: callbacks, num_steps, yield
AfterAcceptedAttempt(proposed_state, suggested_dt) ==
    /\ run' = [run EXCEPT
                 !.state = apply_callbacks(run.callbacks, proposed_state),
                 !.dt = next_dt(TRUE, suggested_dt, run.tmax, run.state, proposed_state),
                 !.rejections = 0,
                 !.num_steps = @ + 1,
                 !.solver = PerturbedStepSolver_step(@, run.state.t, run.state.t + run.dt)]
    /\ attempts' = Append(attempts,
                          AttemptRecord(run.state, run.dt, proposed_state, TRUE,
                                        suggested_dt))
    /\ outputs' = Append(outputs, apply_callbacks(run.callbacks, proposed_state))

\* lines 116-136 and 84-89: the attempt the step rule accepts ends
\* perform_full_step; the callbacks are applied and the state is yielded
AcceptedAttempt ==
    /\ run.pc = "loop"
    /\ run.state.t < run.tmax
    /\ \E suggested_dt \in RuleSteps :
         AfterAcceptedAttempt(attempt_step(run.state, run.dt, Len(attempts) + 1),
                              suggested_dt)
    /\ UNCHANGED OutsideSteps

\* line 78 fails: the generator is exhausted, solve builds the solution from
\* the times and the scales
StepsFinish ==
    /\ run.pc = "loop"
    /\ run.state.t >= run.tmax
    /\ run' = [run EXCEPT !.pc = "done"]
    /\ UNCHANGED <<attempts, outputs>>
    /\ UNCHANGED OutsideSteps

\* solve is called once more on the same solver object: num_steps, the
\* scales and the generator are what the previous call left
SolveAgain ==
    /\ run.pc = "done"
    /\ run.solves < MaxSolves
    /\ run' = [run EXCEPT !.pc = "start", !.state = SolverState(0, <<>>, 0),
                          !.dt = 0, !.rejections = 0, !.solves = @ + 1]
    /\ attempts' = <<>>
    /\ outputs' = <<>>
    /\ UNCHANGED OutsideSteps

StepsNext ==
    \/ StepsInitialize
    \/ RejectedAttempt
    \/ AcceptedAttempt
    \/ StepsFinish
    \/ SolveAgain

SpecSteps == StepsInit /\ [][StepsNext]_vars
-----------------------------------------------------------------------------
(* The time stopper called on its own: _time_stopper(locations) and then    *)
(* any calls adjust(t, dt) with non-decreasing t and dt > 0.                *)

OutsideStopper == <<DiscreteVars, IoupVars, InfoOpVars, NormalVars, ConfigVars, SolverVars, IntegratorVars, LtiVars, KalmanVars, StepVars, UpdateVars, MomentVars>>

StopperInit ==
    /\ \E locations \in IncreasingFrom(1) \ {<<>>} :
         stopper_obj = _time_stopper(locations)
    /\ stopper_call = NoStopperCall
    /\ DiscreteUnused
    /\ IoupUnused
    /\ InfoOpUnused
    /\ NormalUnused
    /\ ConfigUnused
    /\ SolverUnused
    /\ IntegratorUnused
    /\ LtiUnused
    /\ KalmanUnused
    /\ StepsUnused
    /\ UpdateUnused
    /\ MomentsUnused

\* the time of the previous call, 0 before the first
PreviousTime == IF stopper_call.op = "adjust" THEN stopper_call.t ELSE 0

\* adjust(t, dt) with t not below the t of the previous call
StopperAdjust ==
    /\ \E t \in PreviousTime..MaxTmax, dt \in StepSizes :
         /\ stopper_call' = [op |-> "adjust", t |-> t, dt |-> dt,
                             result |-> adjust(stopper_obj, t, dt).dt]
         /\ stopper_obj' = adjust(stopper_obj, t, dt).stopper
    /\ UNCHANGED OutsideStopper

SpecStopper == StopperInit /\ [][StopperAdjust]_vars
-----------------------------------------------------------------------------
(* One call of _matrix_based_update on each belief, action and observation. *)

OutsideUpdate == <<DiscreteVars, IoupVars, InfoOpVars, NormalVars, ConfigVars, SolverVars, IntegratorVars, LtiVars, KalmanVars, StepVars, StopperVars, MomentVars>>

UpdateInit ==
    /\ \E mean \in UpdateMeans, cov \in UpdateCovs, action \in UpdateActions,
          observ \in UpdateObservations :
         belief_update = [op |-> "ready", matrix |-> MatrixNormal(mean, cov),
                          action |-> action, observ |-> observ]
    /\ DiscreteUnused
    /\ IoupUnused
    /\ InfoOpUnused
    /\ NormalUnused
    /\ ConfigUnused
    /\ SolverUnused
    /\ IntegratorUnused
    /\ LtiUnused
    /\ KalmanUnused
    /\ StepsUnused
    /\ StopperUnused
    /\ MomentsUnused

\* self._matrix_based_update(matrix=..., action=..., observ=...)
MatrixBasedUpdate ==
    /\ belief_update.op = "ready"
    /\ belief_update' =
         [op |-> "updated", matrix |-> belief_update.matrix,
          action |-> belief_update.action, observ |-> belief_update.observ,
          result |-> _matrix_based_update(belief_update.matrix, belief_update.action,
                                          belief_update.observ)]
    /\ UNCHANGED OutsideUpdate

SpecUpdate == UpdateInit /\ [][MatrixBasedUpdate]_vars
-----------------------------------------------------------------------------
(* solve_moment_equations_forward: the check of the step, the RK4 loop and  *)
(* the return.                                                              *)

OutsideMoments == <<DiscreteVars, IoupVars, InfoOpVars, NormalVars, ConfigVars, SolverVars, IntegratorVars, LtiVars, KalmanVars, StepVars, StopperVars, UpdateVars>>

MomentsInit ==
    /\ \E rv \in MomentRvs, start \in MomentStarts, stop \in 0..MaxStop,
          h \in MomentSteps, sde \in MomentSdes :
         /\ start <= stop
         /\ moments = [pc |-> "call", rv |-> rv, start |-> FromInt(start),
                       stop |-> FromInt(stop), step |-> h, sde |-> sde,
                       mean |-> rv.mean, cov |-> rv.cov, time |-> FromInt(start),
                       num_rk4_steps |-> 0]
    /\ DiscreteUnused
    /\ IoupUnused
    /\ InfoOpUnused
    /\ NormalUnused
    /\ ConfigUnused
    /\ SolverUnused
    /\ IntegratorUnused
    /\ LtiUnused
    /\ KalmanUnused
    /\ StepsUnused
    /\ StopperUnused
    /\ UpdateUnused

\* lines 62-63: if step <= 0.0: raise ValueError
MomentsRaise ==
    /\ moments.pc = "call"
    /\ RLe(moments.step, Q0)
    /\ moments' = [moments EXCEPT !.pc = "ValueError"]
    /\ UNCHANGED OutsideMoments

\* lines 64-75: mean, cov = rv.mean, rv.cov; time = start
MomentsEnter ==
    /\ moments.pc = "call"
    /\ ~RLe(moments.step, Q0)
    /\ moments' = [moments EXCEPT !.pc = "loop", !.mean = moments.rv.mean,
                                  !.cov = moments.rv.cov, !.time = moments.start]
    /\ UNCHANGED OutsideMoments

MomentsAfter(next) ==
    [moments EXCEPT !.mean = next.mean, !.cov = next.cov, !.time = next.time,
                    !.num_rk4_steps = @ + 1]

\* lines 77-78: while time < stop: mean, cov, time = rk4_step(mean, cov, time)
MomentsRk4Step ==
    /\ moments.pc = "loop"
    /\ RLt(moments.time, moments.stop)
    /\ moments' = MomentsAfter(_rk4_step(moments.sde, moments.mean, moments.cov,
                                         moments.time, moments.step))
    /\ UNCHANGED OutsideMoments

\* line 79: return Normal(mean, cov), {}
MomentsReturn ==
    /\ moments.pc = "loop"
    /\ ~RLt(moments.time, moments.stop)
    /\ moments' = [moments EXCEPT !.pc = "returned"]
    /\ UNCHANGED OutsideMoments

MomentsNext ==
    \/ MomentsRaise
    \/ MomentsEnter
    \/ MomentsRk4Step
    \/ MomentsReturn

SpecMoments == MomentsInit /\ [][MomentsNext]_vars

-----------------------------------------------------------------------------
(* Properties of the discrete transitions.                                  *)

IsLinear == objs["classic"].cls = "DiscreteLinearGaussian"
IsNonlinear == objs["classic"].cls = "DiscreteGaussian"

\* G(t) rv.mean + v(t) and G(t) rv.cov G(t)^T + s Q(t) for the call in progress
ExpectedMean ==
    VecAdd(MatVec(objs["classic"].state_trans_mat_fun[call.t], call.rv.mean),
           objs["classic"].shift_vec_fun[call.t])
ExpectedCov ==
    MatAdd(MatMul(MatMul(objs["classic"].state_trans_mat_fun[call.t], call.rv.cov),
                  Transpose(objs["classic"].state_trans_mat_fun[call.t])),
           MatScale(call._diffusion, objs["classic"].proc_noise_cov_mat_fun[call.t]))

\* the cases in which forward_rv raises LinAlgError: the gain needs the
\* inverse of a singular forwarded covariance, or the square-root
\* implementation needs the Cholesky factor of a process noise that has none
ForwardRaises(self) ==
    \/ call.compute_gain /\ Singular(ExpectedCov)
    \/ /\ self.forward_implementation = "sqrt"
       /\ CholeskyRaises(self.proc_noise_cov_mat_fun[call.t])

GainAndForwardedTogether == IsNone(call.gain) <=> IsNone(call.rv_forwarded)

\* C2: backward_rv with an exact observation (zero covariance) and with gain
\* and rv_forwarded both omitted or both taken from forward_rv returns the
\* same posterior mean and covariance under the classic, sqrt and joseph
\* backward implementations.
C2_ExactObservationAgreement ==
    ( /\ call.op = "backward_rv" /\ IsLinear
      /\ IsZeroMat(call.rv_obtained.cov)
      /\ GainAndForwardedTogether
      /\ \A b \in BackwardImplementations : ret[b].status = "ok" ) =>
        \A b \in BackwardImplementations :
            /\ ret[b].rv.mean = ret["joseph"].rv.mean
            /\ ret[b].rv.cov = ret["joseph"].rv.cov

\* the end-to-end scenario: G = [[1]], shift = [0], Q = [[1]]
IsScenario ==
    /\ IsLinear /\ Shape = <<1, 1>>
    /\ objs["classic"].state_trans_mat_fun = MatFun(<<<<1>>>>, <<<<0>>>>)
    /\ objs["classic"].shift_vec_fun = VecFun(<<0>>, <<0>>)
    /\ objs["classic"].proc_noise_cov_mat_fun = MatFun(<<<<1>>>>, <<<<0>>>>)

ScenarioBelief ==
    /\ call.rv.mean = IntVec(<<0>>) /\ call.rv.cov = IntMat(<<<<1>>>>)
    /\ call._diffusion = Q1

ScenarioObservation ==
    /\ IsNone(call.gain) /\ IsNone(call.rv_forwarded)
    /\ \/ call.op = "backward_realization" /\ call.real = IntVec(<<1>>)
       \/ /\ call.op = "backward_rv"
          /\ call.rv_obtained.mean = IntVec(<<1>>)
          /\ IsZeroMat(call.rv_obtained.cov)

\* C3: in the scenario, forward_rv of Normal(0, 1) with _diffusion = 1 gives
\* Normal(0, 2), and conditioning Normal(0, 1) on the exact observation y = 1
\* without a gain gives a posterior mean strictly between 0 and 1 and a
\* posterior covariance strictly below 1, under each backward implementation.
C3_EndToEndScenario ==
    /\ (IsScenario /\ ScenarioBelief /\ call.op = "forward_rv") =>
          \A b \in BackwardImplementations :
              /\ ret[b].status = "ok"
              /\ ret[b].rv.mean = IntVec(<<0>>)
              /\ ret[b].rv.cov = IntMat(<<<<2>>>>)
    /\ (IsScenario /\ ScenarioBelief /\ ScenarioObservation) =>
          \A b \in BackwardImplementations :
              /\ ret[b].status = "ok"
              /\ RLt(Q0, ret[b].rv.mean[1]) /\ RLt(ret[b].rv.mean[1], Q1)
              /\ RLt(ret[b].rv.cov[1][1], Q1)

ObtainedCov ==
    IF call.op = "backward_rv" THEN call.rv_obtained.cov
    ELSE Zeros(OutputDim, OutputDim)

\* the Joseph form for a gain
JosephForm(gain) ==
    LET H == objs["joseph"].state_trans_mat_fun[call.t]
        R == MatScale(call._diffusion, objs["joseph"].proc_noise_cov_mat_fun[call.t])
        F == MatSub(Eye(InputDim), MatMul(gain, H))
    IN  MatAdd(MatAdd(MatMul(MatMul(F, call.rv.cov), Transpose(F)),
                      MatMul(MatMul(gain, R), Transpose(gain))),
               MatMul(MatMul(gain, ObtainedCov), Transpose(gain)))

\* C5: the covariance the Joseph backward update returns is symmetric
\* positive semi-definite for every gain passed in, the Kalman gain or not,
\* and equals (I - gain G) rv.cov (I - gain G)^T + gain (s Q) gain^T
\* + gain rv_obtained.cov gain^T.
C5_JosephCovariance ==
    ( /\ call.op \in {"backward_rv", "backward_realization"} /\ IsLinear
      /\ ret["joseph"].status = "ok" ) =>
        /\ IsPSD(ret["joseph"].rv.cov)
        /\ ~IsNone(call.gain) => ret["joseph"].rv.cov = JosephForm(Val(call.gain))

C5_Witness ==
    /\ call.op = "backward_rv" /\ IsLinear
    /\ Shape = <<2, 2>>
    /\ ~IsNone(call.gain) /\ Val(call.gain) \in OtherGains(Shape)
    /\ ~IsZeroMat(call.rv.cov) /\ ~IsZeroMat(call.rv_obtained.cov)
    /\ call._diffusion = FromInt(2)
    /\ ret["joseph"].status = "ok"
    /\ IsPD(ret["joseph"].rv.cov)

\* C6: on a nonlinear DiscreteGaussian forward_rv, backward_rv and
\* backward_realization raise NotImplementedError whatever the arguments, and
\* forward_realization(real, t, _diffusion=s) returns
\* Normal(state_trans_fun(t, real), s * proc_noise_cov_mat_fun(t)).
C6_NonlinearOperations ==
    IsNonlinear =>
        \A b \in BackwardImplementations :
            /\ call.op \in {"forward_rv", "backward_rv", "backward_realization"} =>
                  ret[b].status = "NotImplementedError"
            /\ call.op = "forward_realization" =>
                  /\ ret[b].status = "ok"
                  /\ ret[b].rv.mean = state_trans_fun(objs[b], call.t, call.real)
                  /\ ret[b].rv.cov =
                        MatScale(call._diffusion, objs[b].proc_noise_cov_mat_fun[call.t])

C6_Witness ==
    /\ IsNonlinear
    /\ call.op = "forward_realization"
    /\ objs["classic"].state_trans_fun = "square_plus_t"
    /\ call.t = 1 /\ call._diffusion = FromInt(2)
    /\ call.real = IntVec(<<1, -2>>)
    /\ ret["classic"].status = "ok"
    /\ ret["classic"].rv.mean = IntVec(<<2, 5>>)
    /\ ~IsZeroMat(ret["classic"].rv.cov)

C6_RaisesWitness ==
    /\ IsNonlinear
    /\ call.op = "backward_realization"
    /\ ret["classic"].status = "NotImplementedError"


\* the classic backward update computed from a prediction fwd of the call's
\* rv: rv conditioned on rv_obtained with fwd's belief and gain
ConditionedOn(fwd) ==
    condition_state_on_rv(call.rv_obtained, fwd.rv, call.rv, fwd.info.gain)

\* the call supplies the rv_forwarded and the gain of the prediction fwd
SuppliesCached(fwd) ==
    /\ call.rv_forwarded = Some(fwd.rv)
    /\ ~IsNone(call.gain)
    /\ Val(call.gain) = fwd.info.gain

ClassicBackwardFrom(fwd) ==
    (fwd.status = "ok" /\ (IsNone(call.rv_forwarded) \/ IsNone(call.gain)
                           \/ SuppliesCached(fwd))) =>
        /\ ret["classic"].status = "ok"
        /\ ret["classic"].rv = ConditionedOn(fwd)
        /\ ret["classic"].info = EmptyDict

\* C20: with the classic backward implementation, backward_rv with the
\* rv_forwarded and gain of forward_rv(rv, t, compute_gain=True, _diffusion)
\* supplied returns the same Normal as with both omitted; when either of the
\* two is missing, what is supplied is ignored and both are those of one
\* forward_rv call with the call's t and _diffusion.
C20_CachedForwardSameResult ==
    (call.op = "backward_rv" /\ IsLinear) =>
        ClassicBackwardFrom(forward_rv(objs["classic"], call.rv, call.t, TRUE,
                                       call._diffusion))

\* both are supplied, with a diffusion other than 1, and the update moved
\* the mean
C20_Witness ==
    /\ call.op = "backward_rv" /\ IsLinear
    /\ ~IsNone(call.rv_forwarded) /\ ~IsNone(call.gain)
    /\ call._diffusion = FromInt(2)
    /\ ~IsZeroMat(call.rv.cov)
    /\ ret["classic"].status = "ok"
    /\ ret["classic"].rv.mean # call.rv.mean

\* only a gain is supplied, and it is not the one used
C20_WitnessGainOnly ==
    /\ call.op = "backward_rv" /\ IsLinear
    /\ IsNone(call.rv_forwarded) /\ ~IsNone(call.gain)
    /\ call._diffusion = FromInt(2)
    /\ ret["classic"].status = "ok"
    /\ ret["classic"].rv.mean # call.rv.mean
    /\ ret["classic"].rv.mean #
          VecAdd(call.rv.mean,
                 MatVec(Val(call.gain),
                        VecSub(call.rv_obtained.mean, ExpectedMean)))

\* only rv_forwarded is supplied
C20_WitnessForwardedOnly ==
    /\ call.op = "backward_rv" /\ IsLinear
    /\ ~IsNone(call.rv_forwarded) /\ IsNone(call.gain)
    /\ ret["classic"].status = "ok"
    /\ ret["classic"].rv.mean # call.rv.mean
-----------------------------------------------------------------------------
(* Properties of the IOUP transition.                                       *)

\* the transition as it was right after construction
Constructed ==
    IntegratedOrnsteinUhlenbeckTransition(transition.num_derivatives,
                                          transition.wiener_process_dimension,
                                          transition.driftspeed)

NoCallInProgress == \A c \in Callers : frames[c].pc \in {"idle", "returned"}

\* C7: after any sequence of forward_rv and backward_rv calls that all
\* returned normally, the drift matrix, force vector and dispersion matrix of
\* an IntegratedOrnsteinUhlenbeckTransition are the ones it was constructed
\* with.
C7_SystemMatricesRestored ==
    (NoCallInProgress /\ ~raised) =>
        /\ transition.drift_matrix = Constructed.drift_matrix
        /\ transition.force_vector = Constructed.force_vector
        /\ transition.dispersion_matrix = Constructed.dispersion_matrix

\* two calls have returned normally, the second a backward_rv with a step
\* that changes the system matrices while it runs
C7_Witness ==
    /\ ncalls = 2 /\ ~raised
    /\ frames[1].pc = "returned" /\ frames[1].op = "backward_rv"
    /\ frames[1].result.status = "ok"
    /\ frames[1].model.drift_matrix # Constructed.drift_matrix
    /\ frames[1].model.dispersion_matrix # Constructed.dispersion_matrix
    /\ transition.driftspeed # Q0
    /\ transition = Constructed

\* what a call computes when no other call runs between its first step and
\* its return
ModelAlone(frame) ==
    discretise(precondition_system(Constructed, Val(frame.args.dt)), Val(frame.args.dt))

ResultAlone(frame) ==
    IF frame.op = "forward_rv"
    THEN LET inner == discretised_forward_rv(ModelAlone(frame), frame.local.rv,
                                             frame.local.t, frame.local.compute_gain,
                                             frame.local._diffusion)
         IN  IF inner.status # "ok" THEN Raise(inner.status)
             ELSE forward_rv_undo(Constructed, Val(frame.args.dt), inner)
    ELSE LET inner == discretised_backward_rv(ModelAlone(frame), frame.local.rv_obtained,
                                              frame.local.rv, frame.local.rv_forwarded,
                                              frame.local.gain, frame.local.t,
                                              frame.local._diffusion)
         IN  IF inner.status # "ok" THEN Raise(inner.status)
             ELSE backward_rv_undo(Constructed, Val(frame.args.dt), inner)

\* C8: calls on one transition that run interleaved without a lock each
\* discretise the system matrices they would read when run alone, and each
\* return what they return when run alone (as long as no call has raised).
C8_InterleavedCallsAsAlone ==
    ~raised =>
        \A c \in Callers :
            /\ frames[c].model # NoModel => frames[c].model = ModelAlone(frames[c])
            /\ (frames[c].pc = "returned" /\ frames[c].model # NoModel) =>
                  frames[c].result = ResultAlone(frames[c])

\* a call has discretised system matrices that another call in progress had
\* preconditioned as well
C8_Witness ==
    /\ ~raised
    /\ frames[1].pc = "preconditioned"
    /\ frames[2].pc = "propagated"
    /\ frames[2].model # ModelAlone(frames[2])

-----------------------------------------------------------------------------
(* Properties of the forward/backward round trip of the gain (SpecRoundTrip *)
(* ) and of failing calls (SpecSequential).                                 *)

IsIdentity(M) == M = Eye(NRows(M))

\* a backward_rv call that was handed what forward_rv returned
BackwardWithCached(frame) ==
    /\ frame.op = "backward_rv"
    /\ frame.pc \in {"preconditioned", "propagated", "returned"}

\* the discretised model and the arguments of the forward_rv call whose
\* results the backward_rv call was handed
ForwardModelOf(frame) ==
    discretise(precondition_system(Constructed, Val(frame.args.dt)), Val(frame.args.dt))

\* The gain x computed by the discretised model in forward_rv is
\* cov Ah^T S^-1 with cov and S positive definite and Ah a matrix
\* exponential, hence invertible; left @ x @ right with left the identity
\* is x exactly when right is the identity.
HandedSameGain(frame) ==
    /\ Val(frame.local.gain).x = Computed("gain", ForwardModelOf(frame),
                                          [rv |-> frame.local.rv, t |-> frame.local.t,
                                           _diffusion |-> frame.local._diffusion])
    /\ IsIdentity(Val(frame.local.gain).left)
    /\ IsIdentity(Val(frame.local.gain).right)

HandedSameRvForwarded(frame) ==
    /\ Val(frame.local.rv_forwarded).rv =
          Computed("rv_forwarded", ForwardModelOf(frame),
                   [rv |-> frame.local.rv, t |-> frame.local.t,
                    _diffusion |-> frame.local._diffusion])
    /\ IsIdentity(Val(frame.local.rv_forwarded).precon)

\* C27: backward_rv called with the gain that forward_rv(rv, t, dt,
\* compute_gain=True) returned hands the discretised model the gain that the
\* discretised model computed in forward_rv (and so returns what it returns
\* with gain=None).
C27_GainSurvivesRoundTrip ==
    BackwardWithCached(frames[1]) => HandedSameGain(frames[1])

\* the gain handed to the discretised model is the computed one multiplied
\* from the right by the square of the inverse preconditioner
C27_Witness ==
    /\ BackwardWithCached(frames[1])
    /\ frames[1].pc = "returned"
    /\ frames[1].result.status = "ok"
    /\ IsIdentity(Val(frames[1].local.gain).left)
    /\ Val(frames[1].local.gain).right =
          MatMul(Transpose(precon_inverse(Constructed, Val(frames[1].args.dt))),
                 Transpose(precon_inverse(Constructed, Val(frames[1].args.dt))))
    /\ ~IsIdentity(Val(frames[1].local.gain).right)

\* rv_forwarded does survive the round trip, and so does the left factor
C27_RvForwardedSurvivesRoundTrip ==
    BackwardWithCached(frames[1]) =>
        /\ HandedSameRvForwarded(frames[1])
        /\ IsIdentity(Val(frames[1].local.gain).left)
        /\ Val(frames[1].local.gain).x =
              Computed("gain", ForwardModelOf(frames[1]),
                       [rv |-> frames[1].local.rv, t |-> frames[1].local.t,
                        _diffusion |-> frames[1].local._diffusion])

\* C28: forward_rv and backward_rv with dt=None raise ValueError, and after
\* a call that raised, the drift matrix, force vector and dispersion matrix
\* are what they were before the call.
C28_FailingCallLeavesTransition ==
    /\ (frames[1].pc = "returned" /\ IsNone(frames[1].args.dt))
          => frames[1].result.status = "ValueError"
    /\ (NoCallInProgress /\ ncalls = 1 /\ raised) =>
         /\ transition.drift_matrix = Constructed.drift_matrix
         /\ transition.force_vector = Constructed.force_vector
         /\ transition.dispersion_matrix = Constructed.dispersion_matrix

\* the first call raised inside the discretised model's update and the
\* system matrices are left in the preconditioned coordinates
C28_Witness ==
    /\ ncalls = 1
    /\ raised
    /\ frames[1].pc = "returned"
    /\ frames[1].result.status = "LinAlgError"
    /\ transition.dispersion_matrix # Constructed.dispersion_matrix
    /\ transition.dispersion_matrix =
          precondition_system(Constructed, Val(frames[1].args.dt)).dispersion_matrix

\* a call with dt=None raises ValueError before anything is assigned
C28_MissingStepLeavesTransition ==
    (ncalls = 1 /\ frames[1].pc = "returned" /\ IsNone(frames[1].args.dt)) =>
        /\ frames[1].result.status = "ValueError"
        /\ transition = Constructed
-----------------------------------------------------------------------------
(* Properties of the information operators.                                 *)

\* the ODE an operator holds, and whether it holds one
StoredOde(op) == IF op.cls = "ODEResidualOperator" THEN op.ivp ELSE op.ode
HasOde(op) ==
    IF op.cls = "ODEResidualOperator" THEN ivp_has_been_set(op)
    ELSE ode_has_been_incorporated(op)

\* a step that is a call of set_ivp or incorporate_ode
IncorporationAttempt == outcome'.op \in {"set_ivp", "incorporate_ode"}

\* C9: an information operator accepts an ODE exactly once: the first
\* set_ivp or incorporate_ode stores the ODE and turns ivp_has_been_set or
\* ode_has_been_incorporated from False to True; every later attempt raises
\* ValueError and leaves the stored ODE, the cached projection matrices and
\* the selected residual and Jacobian functions unchanged.
C9_OdeAcceptedOnce ==
    [][IncorporationAttempt =>
          IF ~HasOde(info_op)
          THEN /\ HasOde(info_op')
               /\ StoredOde(info_op') = outcome'.arg
          ELSE /\ outcome'.status = "ValueError"
               /\ info_op' = info_op]_vars

\* an operator that holds one ODE, with its projections and residual
\* functions cached, has just refused another
C9_Witness ==
    /\ outcome.op = "incorporate_ode"
    /\ outcome.status = "ValueError"
    /\ outcome.arg # info_op.ode
    /\ ode_has_been_incorporated(info_op)
    /\ ~IsNone(info_op.projection_matrices)
    /\ info_op._residual = Some("_residual_first_order_ode")

\* C10: as_transition() raises ValueError as long as no ODE has been
\* incorporated; afterwards it returns the nonlinear Gaussian transition
\* built from the residual and the Jacobian of the operator.
C10_AsTransitionNeedsOde ==
    outcome.op = "as_transition" =>
        IF ~HasOde(info_op)
        THEN outcome.status = "ValueError"
        ELSE /\ outcome.status = "ok"
             /\ outcome.value.cls = "DiscreteGaussian"
             /\ outcome.value.state_trans_fun = BoundMethod(info_op, "__call__")
             /\ outcome.value.jacob_state_trans_fun = BoundMethod(info_op, "jacobian")
             /\ outcome.value.input_dim = info_op.input_dim
             /\ outcome.value.output_dim = info_op.output_dim

\* as_transition() has returned a transition for an operator that holds an
\* ODE
C10_Witness ==
    /\ outcome.op = "as_transition"
    /\ HasOde(info_op)
    /\ outcome.status = "ok"

-----------------------------------------------------------------------------
(* Properties of Normal.                                                    *)

\* the number of entries of an array
NumEntries(a) == reduce_mul(a.shape)

\* the shapes of mean and cov agree: cov is (n, n) for the n entries of a
\* mean that is not a scalar, and a scalar for a scalar mean
ShapesAgree(mean, cov) ==
    IF mean.shape = <<>> THEN cov.shape = <<>>
    ELSE cov.shape = <<NumEntries(mean), NumEntries(mean)>>

\* C11: Normal(mean, cov) raises exactly when the shape of cov differs from
\* (n, n), n the number of entries of mean (for a scalar mean: when cov is
\* not a scalar); otherwise it succeeds and the Normal has the shape of mean.
C11_NormalShapeCheck ==
    normal_outcome.op = "Normal" =>
        IF ShapesAgree(normal_outcome.mean, normal_outcome.cov)
        THEN /\ normal_outcome.status = "ok"
             /\ normal_rv.exists
             /\ normal_rv.shape = normal_outcome.mean.shape
        ELSE /\ normal_outcome.status = "ValueError"
             /\ ~normal_rv.exists

C11_Witness ==
    /\ normal_outcome.op = "Normal"
    /\ normal_outcome.status = "ValueError"
    /\ normal_outcome.mean.shape = <<1, 2>>
    /\ normal_outcome.cov.shape = <<1, 2>>

\* an access to the Cholesky factor that returned
IsCholeskyAccess ==
    /\ normal_outcome'.op \in {"_cov_cholesky", "_cov_matrix_cholesky", "compute_cov_sqrtm"}
    /\ normal_outcome'.status = "ok"
    /\ naccesses' = naccesses + 1

\* C12: the Cholesky factor is computed at most once: an access that finds
\* no factor in the cache computes it and stores it there, an access that
\* finds one computes nothing, and no access changes mean or covariance.
C12_CholeskyComputedOnce ==
    [][IsCholeskyAccess =>
          /\ cholesky_calls' <= 1
          /\ "cov_cholesky" \in DOMAIN normal_rv'._cache
          /\ ("cov_cholesky" \in DOMAIN normal_rv._cache => cholesky_calls' = cholesky_calls)
          /\ normal_rv'.mean = normal_rv.mean
          /\ normal_rv'.cov = normal_rv.cov]_vars

C12_Witness ==
    /\ normal_outcome.op = "_cov_cholesky"
    /\ normal_outcome.status = "ok"
    /\ naccesses = 2
    /\ cholesky_calls = 2
    /\ normal_rv._cache = EmptyCache
-----------------------------------------------------------------------------
(* Properties of the configuration object.                                  *)

\* entry key reads value
Reads(dict, key, value) == getattr(dict, key).status = "ok" /\ getattr(dict, key).value = value

\* C13: after register(key, default) the entry reads the default; when a
\* with block is entered every entry of its keyword arguments reads the value
\* given; when the block is left, normally or through an exception, every
\* entry it overrode reads the value it had when the block was entered.
C13_ConfigOverridesRestored ==
    [][/\ config_outcome'.op = "register" =>
             Reads(config_dict', config_outcome'.key, config_outcome'.value)
       /\ (config_outcome'.op = "enter" /\ Len(config_blocks') > Len(config_blocks)) =>
             \A i \in 1..Len(config_outcome'.kwargs) :
                 Reads(config_dict', config_outcome'.kwargs[i][1],
                       config_outcome'.kwargs[i][2])
       /\ config_outcome'.op = "exit" =>
             \A i \in 1..Len(config_outcome'.kwargs) :
                 Reads(config_dict', config_outcome'.kwargs[i][1],
                       getattr(config_blocks[Len(config_blocks)].at_entry,
                               config_outcome'.kwargs[i][1]).value)
      ]_vars

C13_Witness ==
    /\ config_outcome.op = "getattr"
    /\ config_outcome.key = "covariance_inversion_damping"
    /\ config_outcome.status = "AttributeError"
    /\ Len(config_blocks) = 1

\* C29: when config(**kwargs) is entered with a key that is not an entry,
\* KeyError is raised and every entry still has the value it had before the
\* call, the keys listed before the unknown one included.
C29_RejectedOverrideChangesNothing ==
    [][(config_outcome'.op = "enter" /\ config_outcome'.status = "KeyError") =>
          /\ config_dict' = config_dict
          /\ config_blocks' = config_blocks
          /\ \E i \in 1..Len(config_outcome'.kwargs) :
                ~hasattr(config_dict, config_outcome'.kwargs[i][1])
      ]_vars

\* a call whose first key exists and whose second does not has raised
\* KeyError outside any block, and the first key keeps the value of the call
C29_Witness ==
    /\ config_outcome.op = "enter"
    /\ config_outcome.status = "KeyError"
    /\ Len(config_outcome.kwargs) = 2
    /\ config_blocks = <<>>
    /\ config_outcome.kwargs[1][1] \in DOMAIN config_dict
    /\ config_dict[config_outcome.kwargs[1][1]] = config_outcome.kwargs[1][2]

\* a key that does not exist always ends the call with KeyError, and no
\* block is entered
C29_UnknownKeyRaises ==
    [][config_outcome'.op = "enter" =>
          ((\E i \in 1..Len(config_outcome'.kwargs) :
                ~hasattr(config_dict, config_outcome'.kwargs[i][1]))
             <=> config_outcome'.status = "KeyError")
          /\ (config_outcome'.status = "KeyError" => config_blocks' = config_blocks)
      ]_vars
-----------------------------------------------------------------------------
(* Properties of the solver loop.                                           *)

\* the stop locations given
StopLocations ==
    IF IsNone(solver.stop_at) THEN {}
    ELSE {Val(solver.stop_at)[i] : i \in 1..Len(Val(solver.stop_at))}

YieldedTimes == {yielded[i] : i \in 1..Len(yielded)}

\* the stop locations after time t
LaterStops(t) == {L \in StopLocations : L > t}

\* the smallest stop location after t
NextStop(t) == CHOOSE L \in LaterStops(t) : \A M \in LaterStops(t) : L <= M

\* C14: with stop_at given, dt is cut before each step so that t + dt does
\* not exceed the smallest stop location greater than t, and is left
\* unchanged when it does not cross that location; hence every stop location
\* the solver has passed is the time of a yielded state.
C14_StepsThroughStopLocations ==
    /\ (adjusted.t >= 0 /\ ~IsNone(solver.stop_at)) =>
          adjusted.result =
              IF LaterStops(adjusted.t) # {} /\ adjusted.t + adjusted.dt > NextStop(adjusted.t)
              THEN NextStop(adjusted.t) - adjusted.t
              ELSE adjusted.dt
    /\ \A L \in StopLocations :
          (0 < L /\ L <= solver.tmax /\ solver.t >= L) => L \in YieldedTimes

C14_Witness ==
    /\ solver.pc = "done"
    /\ ~IsNone(solver.stop_at)
    /\ \E L \in StopLocations : L \notin YieldedTimes
-----------------------------------------------------------------------------
(* Properties of the construction of a DiscreteLTIGaussian.                 *)

\* the shapes are (N, *), (N,), (N, N) for one N
CompatibleShapes(state_trans_mat, shift_vec, proc_noise_cov_mat) ==
    /\ Len(state_trans_mat.shape) = 2
    /\ Len(shift_vec.shape) = 1
    /\ Len(proc_noise_cov_mat.shape) = 2
    /\ \E N \in 1..(MaxLtiDim + 1) :
          /\ state_trans_mat.shape[1] = N
          /\ shift_vec.shape = <<N>>
          /\ proc_noise_cov_mat.shape = <<N, N>>

\* C18: the constructor of DiscreteLTIGaussian raises TypeError and produces
\* no transition unless state_trans_mat is 2-D, shift_vec is 1-D,
\* proc_noise_cov_mat is 2-D and their shapes are (N, *), (N,), (N, N) for one
\* N; otherwise it succeeds and output_dim, input_dim = state_trans_mat.shape
C18_LtiConstructionChecksShapes ==
    lti_outcome.op = "__init__" =>
        IF CompatibleShapes(lti_outcome.state_trans_mat, lti_outcome.shift_vec,
                            lti_outcome.proc_noise_cov_mat)
        THEN /\ lti_outcome.status = "ok"
             /\ <<lti.output_dim, lti.input_dim>> = lti_outcome.state_trans_mat.shape
             /\ lti.state_trans_mat = lti_outcome.state_trans_mat
             /\ lti.shift_vec = lti_outcome.shift_vec
             /\ lti.proc_noise_cov_mat = lti_outcome.proc_noise_cov_mat
        ELSE /\ lti_outcome.status = "TypeError"
             /\ lti = NoLti

\* a 2 x 2 transition matrix and covariance with a shift vector of length 1
\* were refused
C18_Witness ==
    /\ lti_outcome.op = "__init__"
    /\ lti_outcome.status = "TypeError"
    /\ lti = NoLti
    /\ lti_outcome.state_trans_mat.shape = <<2, 2>>
    /\ lti_outcome.shift_vec.shape = <<1>>
    /\ lti_outcome.proc_noise_cov_mat.shape = <<2, 2>>

\* a 1 x 2 transition matrix was accepted
C18_WitnessConstructed ==
    /\ lti_outcome.op = "__init__"
    /\ lti_outcome.status = "ok"
    /\ lti_outcome.state_trans_mat.shape = <<1, 2>>
    /\ lti.output_dim = 1
    /\ lti.input_dim = 2
-----------------------------------------------------------------------------
(* Properties of the integrators.                                           *)

\* the number of derivatives q and of dimensions d of the integrator
IntegOrder == IF integ.cls = "IOUP" THEN integ.obj.num_derivatives ELSE integ.obj.ordint
IntegDim == IF integ.cls = "IOUP" THEN integ.obj.wiener_process_dimension ELSE integ.obj.spatialdim

\* the index (from 1) of signal s's i-th derivative in a stacked state
StackedIndex(s, i) == (s - 1) * (IntegOrder + 1) + i + 1

\* a stacked state whose entries are all different
StackedState == Arr([k \in 1..(IntegDim * (IntegOrder + 1)) |-> FromInt(10 + k)])

IsShape(A, n, m) == Len(A) = n /\ \A r \in 1..n : Len(A[r]) = m

DriftBlock(i, j) ==
    IF j = i + 1 THEN Q1
    ELSE IF i = IntegOrder /\ j = IntegOrder /\ integ.cls = "IOUP"
         THEN RNeg(integ.obj.driftspeed)
    ELSE Q0

\* C16: the drift matrix of IBM and IOUP is block diagonal with d blocks F1
\* (ones on the superdiagonal, last diagonal entry 0 for IBM and -driftspeed
\* for IOUP), the force vector is zero of length d(q+1), and the dispersion
\* matrix is d(q+1) x d with a single 1 per column, in the row of that
\* signal's highest derivative
C16_SystemMatricesClosedForm ==
    integ_outcome.op = "matrices" =>
        /\ IsShape(integ_outcome.drift, IntegDim * (IntegOrder + 1),
                   IntegDim * (IntegOrder + 1))
        /\ \A s, z \in 1..IntegDim, i, j \in 0..IntegOrder :
              integ_outcome.drift[StackedIndex(s, i)][StackedIndex(z, j)] =
                 IF s = z THEN DriftBlock(i, j) ELSE Q0
        /\ integ_outcome.force = ZeroVec(IntegDim * (IntegOrder + 1))
        /\ IsShape(integ_outcome.dispersion, IntegDim * (IntegOrder + 1), IntegDim)
        /\ \A r \in 1..(IntegDim * (IntegOrder + 1)), s \in 1..IntegDim :
              integ_outcome.dispersion[r][s] =
                 IF r = StackedIndex(s, IntegOrder) THEN Q1 ELSE Q0

\* the matrices of an IOUP with a nonzero drift speed, two derivatives and
\* two dimensions are read
C16_Witness ==
    /\ integ_outcome.op = "matrices"
    /\ integ.cls = "IOUP"
    /\ integ.obj.driftspeed = FromInt(2)
    /\ integ.obj.num_derivatives = 2
    /\ integ.obj.wiener_process_dimension = 2
    /\ integ_outcome.drift[6][6] = FromInt(-2)
    /\ integ_outcome.drift[5][6] = Q1

\* the matrices of an IBM are read
C16_WitnessIBM ==
    /\ integ_outcome.op = "matrices"
    /\ integ.cls = "IBM"
    /\ integ.obj.ordint = 2
    /\ integ_outcome.drift[3][3] = Q0

\* the closed forms for ordint = 2, spatialdim = 1 and step h
ClosedFormStateTransMat(h) ==
    <<<<Q1, h, RDiv(RPow(h, 2), FromInt(2))>>,
      <<Q0, Q1, h>>,
      <<Q0, Q0, Q1>>>>

ClosedFormProcNoiseCov(h) ==
    <<<<RDiv(RPow(h, 5), FromInt(20)), RDiv(RPow(h, 4), FromInt(8)), RDiv(RPow(h, 3), FromInt(6))>>,
      <<RDiv(RPow(h, 4), FromInt(8)), RDiv(RPow(h, 3), FromInt(3)), RDiv(RPow(h, 2), FromInt(2))>>,
      <<RDiv(RPow(h, 3), FromInt(6)), RDiv(RPow(h, 2), FromInt(2)), h>>>>

IsIBM21 == integ.cls = "IBM" /\ integ.obj.ordint = 2 /\ integ.obj.spatialdim = 1

\* C17: for IBM with ordint = 2 and spatialdim = 1, discretise(h) has the
\* closed-form state transition matrix and process noise covariance, and the
\* transition of a Normal over a step h has mean A_h m and covariance
\* A_h C A_h^T + _diffusion Q_h
C17_IbmDiscretisationClosedForm ==
    /\ (IsIBM21 /\ integ_outcome.op = "discretise") =>
          /\ integ_outcome.value.state_trans_mat.data =
                ClosedFormStateTransMat(integ_outcome.step)
          /\ integ_outcome.value.proc_noise_cov_mat.data =
                ClosedFormProcNoiseCov(integ_outcome.step)
          /\ integ_outcome.value.shift_vec.data = ZeroVec(3)
    /\ (IsIBM21 /\ integ_outcome.op = "transition_rv" /\ "cov" \in DOMAIN integ_outcome.rv) =>
          /\ integ_outcome.status = "ok"
          /\ integ_outcome.value.mean =
                MatVec(ClosedFormStateTransMat(integ_outcome.step), integ_outcome.rv.mean)
          /\ integ_outcome.value.cov =
                MatAdd(MatMul(MatMul(ClosedFormStateTransMat(integ_outcome.step),
                                     integ_outcome.rv.cov),
                              Transpose(ClosedFormStateTransMat(integ_outcome.step))),
                       MatScale(integ_outcome._diffusion,
                                ClosedFormProcNoiseCov(integ_outcome.step)))

\* a Normal with a nonzero covariance has been moved over the step 9/4 with
\* _diffusion 3
C17_Witness ==
    /\ IsIBM21
    /\ integ_outcome.op = "transition_rv"
    /\ integ_outcome.status = "ok"
    /\ integ_outcome.step = Rat(9, 4)
    /\ integ_outcome._diffusion = FromInt(3)
    /\ integ_outcome.rv = IoupNormal(3)
    /\ integ_outcome.value.cov[3][3] = RAdd(FromInt(3), RMul(FromInt(3), Rat(9, 4)))

\* discretise(1/4) has been computed
C17_WitnessDiscretise ==
    /\ IsIBM21
    /\ integ_outcome.op = "discretise"
    /\ integ_outcome.step = Rat(1, 4)
    /\ integ_outcome.value.proc_noise_cov_mat.data[1][1] = Rat(1, 20480)
-----------------------------------------------------------------------------
(* Properties of the filtering/smoothing driver.                            *)

NumLocations == Len(kalman.times)

ForwardEvents == {p \in 1..Len(kalman_log) : kalman_log[p].step = "forward"}
BackwardEvents == {p \in 1..Len(kalman_log) : kalman_log[p].step = "backward"}

\* the p-th step is forward step p, begun when exactly the filtered beliefs
\* 1..p-1 existed, from the filtered belief of step p - 1
ForwardInOrder(p) ==
    /\ kalman_log[p].index = p
    /\ kalman_log[p].filtered_before = p - 1
    /\ p > 1 => kalman_log[p].rv = kalman.filtered[p - 1]

\* the p-th step is a backward step: the forward pass is complete, the
\* indices visited decrease from the last but one, and step k conditions the
\* filtered belief k on the smoothed belief k + 1 with the forward quantities
\* of the prediction out of step k
BackwardInOrder(p) ==
    /\ p > NumLocations
    /\ ForwardEvents = 1..NumLocations
    /\ kalman_log[p].index = NumLocations - (p - NumLocations)
    /\ kalman_log[p].index >= 1
    /\ kalman_log[p].rv_obtained = kalman.smoothed[kalman_log[p].index + 1]
    /\ kalman_log[p].rv = kalman.filtered[kalman_log[p].index]
    /\ ForwardQuantities(forward_rv(KalmanDynamics, kalman.filtered[kalman_log[p].index],
                                    kalman.times[kalman_log[p].index], TRUE, Q1))
          = [rv_forwarded |-> kalman_log[p].rv_forwarded, gain |-> kalman_log[p].gain]

\* C19: the forward steps run in the order of the locations, each from the
\* filtered belief before it; the backward steps run after the whole forward
\* pass, in decreasing order, each from the smoothed belief after it and the
\* cached forward quantities; the posterior has one state per location, at
\* the input locations, which are sorted
C19_DriverProcessesTimeInOrder ==
    /\ \A p \in ForwardEvents : ForwardInOrder(p)
    /\ \A p \in BackwardEvents : BackwardInOrder(p)
    /\ kalman.pc = "done" =>
          /\ Len(kalman_log) = 2 * NumLocations - 1
          /\ Len(posterior.states) = NumLocations
          /\ posterior.locations = kalman.times
          /\ StrictlyIncreasing(posterior.locations)

\* three locations have been filtered and smoothed, and smoothing changed
\* the first belief
C19_Witness ==
    /\ kalman.pc = "done"
    /\ NumLocations = 3
    /\ Len(kalman_log) = 5
    /\ kalman_log[4].step = "backward" /\ kalman_log[4].index = 2
    /\ kalman_log[5].step = "backward" /\ kalman_log[5].index = 1
    /\ posterior.states[1] # kalman.filtered[1]
    /\ posterior.states[2] # kalman.filtered[2]
-----------------------------------------------------------------------------
(* Properties of the attempts of a step, of the callbacks and of the        *)
(* scales of a PerturbedStepSolver (SpecSteps).                             *)

Rejected(i) == i \in 1..Len(attempts) /\ ~attempts[i].accepted

Accepted(i) == i \in 1..Len(attempts) /\ attempts[i].accepted

\* the number of accepted attempts among the first i
RECURSIVE NumAccepted(_)
NumAccepted(i) ==
    IF i = 0 THEN 0 ELSE NumAccepted(i - 1) + (IF attempts[i].accepted THEN 1 ELSE 0)

\* only accepted proposals are returned: every yielded state but the initial
\* one is proposed by an accepted attempt, the last of its step, and no
\* rejected proposal is yielded
OnlyAcceptedReturned ==
    /\ \A k \in 2..Len(outputs) :
         \E i \in 1..Len(attempts) :
            /\ attempts[i].accepted
            /\ NumAccepted(i) = k - 1
            /\ outputs[k].attempt = i
            /\ outputs[k].t = attempts[i].proposed_state.t
    /\ \A i \in 1..Len(attempts) :
         /\ attempts[i].proposed_state.attempt = i
         /\ ~attempts[i].accepted => \A k \in 1..Len(outputs) : outputs[k].attempt # i
    /\ Len(outputs) >= 1 => Len(outputs) = NumAccepted(Len(attempts)) + 1
    /\ run.pc \in {"loop", "done"} =>
         /\ run.state = outputs[Len(outputs)]
         /\ run.rejections > 0 <=> Rejected(Len(attempts))

\* after a rejected attempt the next attempt starts from the same state
RetryFromSameState ==
    \A i \in 1..Len(attempts) :
       ~attempts[i].accepted =>
          /\ i < Len(attempts) =>
                /\ attempts[i + 1].state = attempts[i].state
                /\ attempts[i + 1].step = attempts[i].step
          /\ i = Len(attempts) => run.pc = "loop" /\ run.state = attempts[i].state

\* C21 as stated: perform_full_step repeats attempt_step from the same
\* unchanged state with the step size suggested by the step rule until the
\* step rule accepts, returns the accepted proposal, and discards every
\* rejected one.
C21_RetryWithSuggestedStep ==
    /\ OnlyAcceptedReturned
    /\ RetryFromSameState
    /\ \A i \in 1..Len(attempts) :
          ~attempts[i].accepted =>
             /\ i < Len(attempts) => attempts[i + 1].dt = attempts[i].suggested_dt
             /\ i = Len(attempts) => run.dt = attempts[i].suggested_dt

\* C21: perform_full_step repeats attempt_step from the same unchanged state
\* until the step rule accepts, each repetition with the smaller of the step
\* size suggested by the step rule and tmax - state.t; it returns the
\* proposal of the last (accepted) attempt, and no rejected proposal is
\* returned or yielded.
C21_RetryWithCappedSuggestedStep ==
    /\ OnlyAcceptedReturned
    /\ RetryFromSameState
    /\ \A i \in 1..Len(attempts) :
          ~attempts[i].accepted =>
             /\ i < Len(attempts) =>
                   attempts[i + 1].dt = Min(attempts[i].suggested_dt,
                                            run.tmax - attempts[i].state.t)
             /\ i = Len(attempts) =>
                   run.dt = Min(attempts[i].suggested_dt, run.tmax - attempts[i].state.t)

\* a step whose first attempt was rejected with a suggestion beyond tmax and
\* whose second attempt was accepted and yielded
C21_Witness ==
    \E i \in 1..(Len(attempts) - 1) :
       /\ ~attempts[i].accepted
       /\ attempts[i].suggested_dt > run.tmax - attempts[i].state.t
       /\ attempts[i + 1].accepted
       /\ Len(outputs) >= 2
       /\ outputs[Len(outputs)].attempt = i + 1

CallbackList(callbacks) == IF IsNone(callbacks) THEN <<>> ELSE Val(callbacks)

\* the callbacks have marked the yielded states once per accepted step, in
\* order and chained; the initial state and the proposals are unmarked by
\* the step that made them
CallbacksOncePerAcceptedStep ==
    /\ Len(outputs) >= 1 => outputs[1] = SolverState(0, <<>>, 0)
    /\ \A k \in 1..(Len(outputs) - 1) :
         outputs[k + 1].marks = outputs[k].marks \o CallbackList(run.callbacks)
    /\ \A i \in 1..Len(attempts) :
         /\ attempts[i].proposed_state.marks = attempts[i].state.marks
         /\ attempts[i].state = outputs[NumAccepted(i - 1) + 1]
    /\ run.pc \in {"loop", "done"} => run.state = outputs[Len(outputs)]

\* num_steps grows by one with every yielded step and not otherwise
NumStepsCountsYieldedSteps ==
    /\ (run.pc = "loop" /\ Len(outputs') = Len(outputs) + 1)
          => run'.num_steps = run.num_steps + 1
    /\ ~(run.pc = "loop" /\ Len(outputs') = Len(outputs) + 1)
          => run'.num_steps = run.num_steps

\* C22: the callbacks are applied exactly once per accepted step, in the
\* order given, each to the state returned by the previous one, never to the
\* initial state or to rejected attempts; the state yielded and used as the
\* start of the next step is the one the last callback returned; num_steps
\* grows by exactly one per yielded step.
C22_CallbacksChainedPerAcceptedStep ==
    [](CallbacksOncePerAcceptedStep) /\ [][NumStepsCountsYieldedSteps]_vars

\* two callbacks, a rejected attempt, and two yielded steps
C22_Witness ==
    /\ run.callbacks = Some(<<"a", "b">>)
    /\ Len(outputs) >= 3
    /\ outputs[3].marks = <<"a", "b", "a", "b">>
    /\ \E i \in 1..Len(attempts) : ~attempts[i].accepted
    /\ run.num_steps >= 2

\* C24: no yielded state lies beyond tmax, and the generator stops after the
\* first state with t >= tmax.
C24_NoStateBeyondTmax ==
    /\ \A k \in 1..Len(outputs) : outputs[k].t <= run.tmax
    /\ \A k \in 1..(Len(outputs) - 1) : outputs[k].t < run.tmax
    /\ run.pc = "done" => outputs[Len(outputs)].t >= run.tmax

\* the first step, accepted with dt = firststep, is yielded beyond tmax
C24_Witness ==
    /\ run.firststep > run.tmax
    /\ Len(outputs) = 2
    /\ attempts[1].accepted
    /\ attempts[1].dt = run.firststep
    /\ outputs[2].t > run.tmax

\* the generator stops after the first state with t >= tmax
C24_StopsAtFirstStateAtOrBeyondTmax ==
    /\ \A k \in 1..(Len(outputs) - 1) : outputs[k].t < run.tmax
    /\ run.pc = "done" => outputs[Len(outputs)].t >= run.tmax

\* C26: initialise resets the scales, and after a solve there is exactly one
\* scale per accepted step (len(times) - 1), the ratio of the perturbed to
\* the proposed step.
C26_OneScalePerAcceptedStep ==
    /\ run.pc = "loop" /\ Len(outputs) = 1 => run.solver.scales = <<>>
    /\ run.pc = "done" => Len(run.solver.scales) = Len(outputs) - 1

\* a finished solve with one rejected attempt: two scales for one step
C26_Witness ==
    /\ run.pc = "done"
    /\ Len(outputs) = 2
    /\ Len(attempts) = 2
    /\ ~attempts[1].accepted
    /\ Len(run.solver.scales) = 2

\* what the code keeps: one scale per attempt since initialise
C26_OneScalePerAttempt ==
    /\ run.pc = "loop" /\ attempts = <<>> => run.solver.scales = <<>>
    /\ run.pc \in {"loop", "done"} =>
         /\ Len(run.solver.scales) = Len(attempts)
         /\ \A i \in 1..Len(attempts) :
              run.solver.scales[i] \in {Rat(1, 2), Rat(3, 2)}
-----------------------------------------------------------------------------
(* Properties of the time stopper called on its own (SpecStopper).          *)

\* C25: for every increasing list of stop locations and every sequence of
\* calls adjust(t, dt) with non-decreasing t and dt > 0, the step size
\* returned is positive and not larger than the dt passed in.
C25_AdjustedStepPositive ==
    stopper_call.op = "adjust" =>
       /\ stopper_call.result > 0
       /\ stopper_call.result <= stopper_call.dt

\* the first call is made at a time beyond the second location: the step
\* returned leads back to that location
C25_Witness ==
    /\ stopper_call.op = "adjust"
    /\ Len(stopper_obj.locations) >= 2
    /\ stopper_obj.location_iter = 2
    /\ stopper_call.t > stopper_obj.locations[2]
    /\ stopper_call.result = stopper_obj.locations[2] - stopper_call.t
    /\ stopper_call.result < 0

\* a call at a stop location that follows the first: the step returned is 0
C25_WitnessStalled ==
    /\ stopper_call.op = "adjust"
    /\ stopper_call.result = 0

\* the step returned is never larger than the dt passed in
C25_AdjustedStepNotLarger ==
    stopper_call.op = "adjust" => stopper_call.result <= stopper_call.dt

\* inside solution_generator (SpecSolver), where the first call is made
\* below the first location and each call is made where the previous step
\* led, the step returned is positive
C25_PositiveInsideGenerator ==
    adjusted.t >= 0 => adjusted.result > 0 /\ adjusted.result <= adjusted.dt
-----------------------------------------------------------------------------
(* Properties of the matrix-based linear belief update (SpecUpdate).        *)

Updated == belief_update.op = "updated"

HasKronecker == belief_update.matrix.cov.cls = "Kronecker"

\* s^T W s and its pseudo-inverse as the claim defines it
ActionGram(W, s) == Dot(s, MatVec(W, s))

PseudoInverse(g) == IF g[1] > 0 THEN Rat(g[2], g[1]) ELSE Q0

\* the row vector s^T W
RowTimes(s, W) == Arr([j \in 1..NCols(W) |-> SumTo([i \in 1..Len(s) |-> RMul(s[i], W[i][j])], Len(s))])

\* M + (y - M s) (s^T W s)^+ s^T W
UpdatedMean(M, W, s, y) ==
    MatAdd(M, MatScale(PseudoInverse(ActionGram(W, s)),
                       Outer(VecSub(y, MatVec(M, s)), RowTimes(s, W))))

\* W - W s (s^T W s)^+ s^T W
UpdatedRightFactor(W, s) ==
    MatSub(W, MatScale(PseudoInverse(ActionGram(W, s)),
                       Outer(MatVec(W, s), RowTimes(s, W))))

UpdateAsClaimed(M, V, W, s, y, result) ==
    /\ result.status = "ok"
    /\ result.rv.mean = UpdatedMean(M, W, s, y)
    /\ result.rv.cov = Kronecker(V, UpdatedRightFactor(W, s))
    /\ result.rv.cov.A = V
    /\ ActionGram(W, s)[1] > 0 => MatVec(result.rv.mean, s) = y
    /\ ActionGram(W, s)[1] <= 0 => result.rv.mean = M /\ result.rv.cov = Kronecker(V, W)

\* C23: on N(M, V (x) W) with action s and observation y the update returns
\* mean M + (y - M s)(s^T W s)^+ s^T W and covariance
\* V (x) (W - W s (s^T W s)^+ s^T W); with s^T W s > 0 the new mean maps s
\* to y, otherwise mean and covariance are unchanged; V is never changed; a
\* covariance without Kronecker structure raises ValueError.
C23_MatrixBasedUpdateFormula ==
    Updated =>
       IF HasKronecker
       THEN UpdateAsClaimed(belief_update.matrix.mean, belief_update.matrix.cov.A,
                            belief_update.matrix.cov.B, belief_update.action,
                            belief_update.observ, belief_update.result)
       ELSE belief_update.result.status = "ValueError"

\* an update with positive s^T W s that changes mean and covariance
C23_Witness ==
    /\ Updated
    /\ HasKronecker
    /\ ActionGram(belief_update.matrix.cov.B, belief_update.action)[1] > 0
    /\ belief_update.result.status = "ok"
    /\ belief_update.result.rv.mean # belief_update.matrix.mean
    /\ belief_update.result.rv.cov.B # belief_update.matrix.cov.B
    /\ MatVec(belief_update.result.rv.mean, belief_update.action) = belief_update.observ

\* an update with s # 0 and s^T W s = 0, and a covariance without Kronecker
\* structure
C23_WitnessZeroGram ==
    /\ Updated
    /\ HasKronecker
    /\ belief_update.action # ZeroVec(2)
    /\ ActionGram(belief_update.matrix.cov.B, belief_update.action)[1] = 0
    /\ belief_update.result.rv = belief_update.matrix

C23_WitnessNoKronecker ==
    /\ Updated
    /\ ~HasKronecker
    /\ belief_update.result.status = "ValueError"
-----------------------------------------------------------------------------
(* Properties of solve_moment_equations_forward (SpecMoments).              *)

\* C30: ValueError for step <= 0; otherwise the internal time never exceeds
\* stop and equals stop when the moments are returned, also when
\* stop - start is not a multiple of step.
C30_IntegratesExactlyToStop ==
    /\ moments.pc = "ValueError" => RLe(moments.step, Q0)
    /\ moments.pc \in {"loop", "returned"} =>
          /\ RLt(Q0, moments.step)
          /\ RLe(moments.time, moments.stop)
    /\ moments.pc = "returned" => moments.time = moments.stop

\* the moments are returned for a time beyond stop
C30_Witness ==
    /\ moments.pc = "returned"
    /\ moments.start = Q0
    /\ moments.stop = FromInt(1)
    /\ moments.step = FromInt(2)
    /\ moments.time = FromInt(2)
    /\ moments.num_rk4_steps = 1

\* ValueError exactly for step <= 0; after n RK4 steps the time is
\* start + n * step and less than one step beyond stop, so the loop makes
\* finitely many steps and ends at the first time that is not below stop
C30_StopsWithinOneStep ==
    /\ moments.pc = "ValueError" => RLe(moments.step, Q0)
    /\ moments.pc \in {"loop", "returned"} =>
          /\ RLt(Q0, moments.step)
          /\ RLt(moments.time, RAdd(moments.stop, moments.step))
          /\ moments.time = RAdd(moments.start,
                                 RMul(FromInt(moments.num_rk4_steps), moments.step))
    /\ moments.pc = "returned" => RLe(moments.stop, moments.time)

\* when stop - start is a multiple of step the time returned is stop
C30_ExactOnMultiples ==
    (moments.pc = "returned" /\ moments.step = Q1) =>
        moments.time = moments.stop
=============================================================================
